---- MODULE Spec2Model ----
(***************************************************************************)
(* MunicipiosPBA Atlas: the metric aggregation pipeline of app.py          *)
(* (fetch_metricas_por_municipio), the period projection resolver, the     *)
(* identifier normalizer and the derived-indicator calculators.            *)
(*                                                                         *)
(* Numbers are exact rationals [t |-> "num", n, d] in lowest terms; the    *)
(* rounding of binary floating point is not modelled.  Text is a sequence  *)
(* of one-character strings, so that strip(), upper(), endswith() and      *)
(* isdigit() act on characters as the code does.                           *)
(***************************************************************************)
EXTENDS Integers, Sequences, FiniteSets, Bags, TLC

VARIABLES
    fn, args, ret,                  \* the last call of a pure helper and what it returned
    docs, recs, gass,               \* the store: BD_DocumentosCargados, bd_recursos, bd_gastos
    pc, df_metrics,                 \* fetch_metricas_por_municipio: position and returned table
    err_metrics,                    \* ... and the message returned with the table
    SUPABASE_URL, SUPABASE_KEY,     \* the two connection secrets, "" when missing
    store_up,                       \* whether the calls of the store succeed
    contacted,                      \* whether a fetch has called the store
    cache, now,                     \* st.cache_data: the stored results, and the clock in seconds
    queried,                        \* whether the last fetch called the store
    session_state,                  \* st.session_state: the keys set and their values
    widgets,                        \* what the sidebar's widgets hold
    pending,                        \* whether a run of the script is due
    reruns                          \* the reruns requested since the last user input

calcVars == <<fn, args, ret>>
envVars == <<SUPABASE_URL, SUPABASE_KEY, store_up>>
cacheVars == <<cache, now, queried>>
uiVars == <<session_state, widgets, pending, reruns>>
aggVars == <<docs, recs, gass, pc, df_metrics, err_metrics, envVars, contacted, cacheVars,
            uiVars>>
storeVars == <<docs, recs, gass, pc, df_metrics, err_metrics, envVars, contacted, cacheVars>>
vars == <<fn, args, ret, docs, recs, gass, pc, df_metrics, err_metrics,
          SUPABASE_URL, SUPABASE_KEY, store_up, contacted, cache, now, queried,
          session_state, widgets, pending, reruns>>

\* The first option of the sidebar's selector of municipalities.
VistaProvincial == "Vista Provincial"

(***************************************************************************)
(* Bounds of the model.                                                    *)
(***************************************************************************)
MaxLen == 3         \* longest free text handed to norm_georef / get_factor_proyeccion
MaxNum == 5         \* operands of the calculators range over -MaxNum..MaxNum
MaxDen == 5         \* classifier inputs are n/d with d in 1..MaxDen
MaxClock == 120     \* the clock runs from 0 to MaxClock seconds
TickStep == 30      \* in steps of TickStep seconds
MaxLines == 2       \* line items (revenue plus expenditure) in the store
MaxReruns == 3      \* st.rerun() calls in a row without a user input

(***************************************************************************)
(* Values: Python None, float NaN and exact numbers.                       *)
(***************************************************************************)
None == [t |-> "None", n |-> 0, d |-> 1]
NaN == [t |-> "NaN", n |-> 0, d |-> 1]

Abs(i) == IF i < 0 THEN -i ELSE i

RECURSIVE GCD(_, _)
GCD(a, b) == IF b = 0 THEN a ELSE GCD(b, a % b)

\* The number n/d, d # 0, in lowest terms with a positive denominator.
Rat(n, d) ==
    LET s == IF d < 0 THEN -1 ELSE 1
        g == GCD(Abs(n), Abs(d))
    IN [t |-> "num", n |-> (s * n) \div g, d |-> (s * d) \div g]

Num(i) == Rat(i, 1)
IsNum(x) == x.t = "num"
RAdd(a, b) == Rat(a.n * b.d + b.n * a.d, a.d * b.d)
RSub(a, b) == Rat(a.n * b.d - b.n * a.d, a.d * b.d)
RMul(a, b) == Rat(a.n * b.n, a.d * b.d)
RDiv(a, b) == Rat(a.n * b.d, a.d * b.n)
RLt(a, b) == a.n * b.d < b.n * a.d
RGe(a, b) == a.n * b.d >= b.n * a.d
RGt(a, b) == a.n * b.d > b.n * a.d

\* An exception leaving the function.
Raise(e) == [t |-> "raise", n |-> 0, d |-> 1, exc |-> e]
Raised(x) == x.t = "raise"

(***************************************************************************)
(* Text.                                                                   *)
(***************************************************************************)
Digits == <<"0", "1", "2", "3", "4", "5", "6", "7", "8", "9">>
DigitChars == {Digits[i] : i \in 1..10}
LowerCase == <<"a", "b", "c", "d", "e", "f", "g", "h", "i", "j", "k", "l", "m",
               "n", "o", "p", "q", "r", "s", "t", "u", "v", "w", "x", "y", "z">>
UpperCase == <<"A", "B", "C", "D", "E", "F", "G", "H", "I", "J", "K", "L", "M",
               "N", "O", "P", "Q", "R", "S", "T", "U", "V", "W", "X", "Y", "Z">>
Whitespace == {" ", "\t", "\n"}

\* str.isdigit() of one character.
isdigit(ch) == ch \in DigitChars

UpperChar(ch) ==
    IF \E i \in 1..26 : LowerCase[i] = ch
    THEN UpperCase[CHOOSE i \in 1..26 : LowerCase[i] = ch]
    ELSE ch

LowerChar(ch) ==
    IF \E i \in 1..26 : UpperCase[i] = ch
    THEN LowerCase[CHOOSE i \in 1..26 : UpperCase[i] = ch]
    ELSE ch

\* str.upper() and str.lower().
upper(s) == [i \in 1..Len(s) |-> UpperChar(s[i])]
lower(s) == [i \in 1..Len(s) |-> LowerChar(s[i])]

RECURSIVE lstrip(_)
lstrip(s) == IF s # <<>> /\ Head(s) \in Whitespace THEN lstrip(Tail(s)) ELSE s

RECURSIVE rstrip(_)
rstrip(s) ==
    IF s # <<>> /\ s[Len(s)] \in Whitespace THEN rstrip(SubSeq(s, 1, Len(s) - 1)) ELSE s

\* str.strip().
strip(s) == rstrip(lstrip(s))

\* str.endswith(suffix).
endswith(s, suffix) ==
    /\ Len(s) >= Len(suffix)
    /\ SubSeq(s, Len(s) - Len(suffix) + 1, Len(s)) = suffix

\* "".join(ch for ch in s if ch.isdigit()).
OnlyDigits(s) == SelectSeq(s, isdigit)

RECURSIVE zfill(_, _)
\* str.zfill(width) of a text without a sign: pad on the left, never cut.
zfill(s, width) == IF Len(s) >= width THEN s ELSE zfill(<<"0">> \o s, width)

RECURSIVE NatToStr(_)
NatToStr(i) == IF i < 10 THEN <<Digits[i + 1]>> ELSE NatToStr(i \div 10) \o <<Digits[(i % 10) + 1]>>

IntToStr(i) == IF i < 0 THEN <<"-">> \o NatToStr(-i) ELSE NatToStr(i)

\* Inputs of the text helpers: None, a text, an int, or a float i.f with one
\* fractional digit (str() of the float 6007.0 is "6007.0").
TextV(s) == [t |-> "str", s |-> s]
IntV(i) == [t |-> "int", i |-> i]
FloatV(i, f) == [t |-> "float", i |-> i, f |-> f]
NoneV == [t |-> "None"]
NaNV == [t |-> "nan"]

\* str(x).
str(x) ==
    CASE x.t = "str" -> x.s
      [] x.t = "int" -> IntToStr(x.i)
      [] x.t = "float" -> IntToStr(x.i) \o <<".">> \o NatToStr(x.f)
      [] x.t = "None" -> <<"N", "o", "n", "e">>
      [] x.t = "nan" -> <<"n", "a", "n">>

(***************************************************************************)
(* Period projection resolver (app.py, get_factor_proyeccion).             *)
(***************************************************************************)
PeriodosQ1 ==
    { <<"Q", "1">>,
      <<"1", "Q">>,
      <<"1", "E", "R", " ", "T", "R", "I", "M", "E", "S", "T", "R", "E">>,
      <<"P", "R", "I", "M", "E", "R", " ", "T", "R", "I", "M", "E", "S", "T", "R", "E">>,
      <<"1">> }
PeriodosQ2 ==
    { <<"Q", "2">>,
      <<"2", "Q">>,
      <<"2", "D", "O", " ", "T", "R", "I", "M", "E", "S", "T", "R", "E">>,
      <<"S", "E", "G", "U", "N", "D", "O", " ", "T", "R", "I", "M", "E", "S", "T", "R", "E">>,
      <<"2">> }
PeriodosQ3 ==
    { <<"Q", "3">>,
      <<"3", "Q">>,
      <<"3", "E", "R", " ", "T", "R", "I", "M", "E", "S", "T", "R", "E">>,
      <<"T", "E", "R", "C", "E", "R", " ", "T", "R", "I", "M", "E", "S", "T", "R", "E">>,
      <<"3">> }
PeriodosQ4 ==
    { <<"Q", "4">>,
      <<"4", "Q">>,
      <<"4", "T", "O", " ", "T", "R", "I", "M", "E", "S", "T", "R", "E">>,
      <<"C", "U", "A", "R", "T", "O", " ", "T", "R", "I", "M", "E", "S", "T", "R", "E">>,
      <<"4">>,
      <<"A", "N", "U", "A", "L">> }

\* The dictionary FACTORES_PROYECCION, keyed by the exact text.
FACTORES_PROYECCION ==
    (<<"Q", "1">> :> Rat(4, 1)) @@ (<<"Q", "2">> :> Rat(2, 1)) @@
    (<<"Q", "3">> :> Rat(3, 2)) @@ (<<"Q", "4">> :> Rat(1, 1)) @@
    (<<"A", "n", "u", "a", "l">> :> Rat(1, 1))

\* FACTORES_PROYECCION.get(key, 1.0): an int or float key equals no text key.
FactoresGet(key) ==
    IF key.t = "str" /\ key.s \in DOMAIN FACTORES_PROYECCION
    THEN FACTORES_PROYECCION[key.s]
    ELSE Rat(1, 1)

\* Mutant: the label is upper-cased but not trimmed.
get_factor_proyeccion_NoStrip(doc_periodo) ==
    IF doc_periodo.t = "None" THEN Rat(1, 1)
    ELSE LET periodo == upper(str(doc_periodo))
         IN IF periodo \in PeriodosQ1 THEN Rat(4, 1)
            ELSE IF periodo \in PeriodosQ2 THEN Rat(2, 1)
            ELSE IF periodo \in PeriodosQ3 THEN Rat(3, 2)
            ELSE IF periodo \in PeriodosQ4 THEN Rat(1, 1)
            ELSE FactoresGet(doc_periodo)

get_factor_proyeccion(doc_periodo) ==
    IF doc_periodo.t = "None" THEN Rat(1, 1)
    ELSE LET periodo == upper(strip(str(doc_periodo)))
         IN IF periodo \in PeriodosQ1 THEN Rat(4, 1)
            ELSE IF periodo \in PeriodosQ2 THEN Rat(2, 1)
            ELSE IF periodo \in PeriodosQ3 THEN Rat(3, 2)
            ELSE IF periodo \in PeriodosQ4 THEN Rat(1, 1)
            ELSE FactoresGet(doc_periodo)

(***************************************************************************)
(* Identifier normalizer (app.py and scripts/preprocess_geojson.py).       *)
(***************************************************************************)
GeorefWidth == 5

norm_georef(x) ==
    IF x.t = "None" THEN <<>>
    ELSE LET s0 == strip(str(x))
             s1 == IF endswith(s0, <<".", "0">>) THEN SubSeq(s0, 1, Len(s0) - 2) ELSE s0
         IN zfill(OnlyDigits(s1), GeorefWidth)

\* str.startswith.
startswith(s, prefix) ==
    Len(s) >= Len(prefix) /\ SubSeq(s, 1, Len(prefix)) = prefix

\* scripts/extract_georef_dbf.py, line 36: in1.astype(str).str.strip().str.zfill(5).
in1_str(x) == zfill(strip(str(x)), GeorefWidth)

\* The sources that read a geographic identifier, and what each makes of the
\* raw identifier x: the key it stores and whether it keeps the municipality
\* (the boundary loaders and the DBF extract keep the keys that start with
\* "06"; the registry load keeps every row).
GeorefSources ==
    {"fetch_municipios_base", "load_pba_geojson", "preprocess_geojson", "extract_georef_dbf"}

georef_key(source, x) ==
    CASE source = "fetch_municipios_base" ->
             [id_georef |-> norm_georef(x), kept |-> TRUE]
      [] source \in {"load_pba_geojson", "preprocess_geojson"} ->
             [id_georef |-> norm_georef(x),
              kept |-> startswith(norm_georef(x), <<"0", "6">>)]
      [] source = "extract_georef_dbf" ->
             [id_georef |-> in1_str(x),
              kept |-> startswith(in1_str(x), <<"0", "6">>)]

\* create_choropleth_map, lines 848-866: base_lookup.get(gid) for the feature
\* load_pba_geojson made of the boundary identifier and the registry row
\* fetch_municipios_base made of the registry identifier.
base_lookup_get(registro, limite) ==
    LET row == georef_key("fetch_municipios_base", registro)
        feat == georef_key("load_pba_geojson", limite)
    IN IF ~feat.kept THEN "no feature"
       ELSE IF feat.id_georef = row.id_georef THEN "match" ELSE "no match"

(***************************************************************************)
(* Amount parser (app.py, parse_amount_to_float).                          *)
(***************************************************************************)
\* The value of a text of decimal digits.
DigitValue(ch) == CHOOSE i \in 0..9 : Digits[i + 1] = ch
RECURSIVE StrToNat(_)
StrToNat(s) ==
    IF s = <<>> THEN 0
    ELSE 10 * StrToNat(SubSeq(s, 1, Len(s) - 1)) + DigitValue(s[Len(s)])

RECURSIVE Pow10(_)
Pow10(k) == IF k = 0 THEN 1 ELSE 10 * Pow10(k - 1)

\* s.count(ch).
count(s, ch) == Cardinality({i \in 1..Len(s) : s[i] = ch})
\* s.replace(ch, "") and s.replace(a, b) for one-character texts.
remove(s, ch) == SelectSeq(s, LAMBDA c : c # ch)
replace(s, a, b) == [i \in 1..Len(s) |-> IF s[i] = a THEN b ELSE s[i]]

\* set("0123456789.,-").
allowed == DigitChars \cup {".", ",", "-"}

\* The texts of digits, "." and "-" that float() accepts: an optional "-",
\* then digits with at most one "." among them and at least one digit.
IsFloatText(s) ==
    LET body == IF s # <<>> /\ Head(s) = "-" THEN Tail(s) ELSE s
    IN /\ count(body, ".") <= 1
       /\ count(body, "-") = 0
       /\ remove(body, ".") # <<>>
\* float(s) of such a text.
FloatValue(s) ==
    LET neg == Head(s) = "-"
        body == IF neg THEN Tail(s) ELSE s
        dot == IF count(body, ".") = 1 THEN CHOOSE i \in 1..Len(body) : body[i] = "." ELSE Len(body) + 1
        frac == IF dot > Len(body) THEN 0 ELSE Len(body) - dot
        m == StrToNat(remove(body, "."))
    IN Rat(IF neg THEN -m ELSE m, Pow10(frac))

\* float(s) raising ValueError is caught and gives 0.0 (lines 242-245).
parse_amount_to_float(x) ==
    IF x.t = "None" THEN Rat(0, 1)
    ELSE LET s0 == strip(str(x))
             s1 == SelectSeq(s0, LAMBDA ch : ch \in allowed)
             s2 == IF count(s1, ",") > 0 /\ count(s1, ".") > 0
                   THEN replace(remove(s1, "."), ",", ".")
                   ELSE IF count(s1, ",") > 0 /\ count(s1, ".") = 0
                   THEN replace(s1, ",", ".")
                   ELSE s1
         IN IF s0 = <<>> THEN Rat(0, 1)
            ELSE IF s2 # <<>> /\ IsFloatText(s2) THEN FloatValue(s2)
            ELSE Rat(0, 1)

(***************************************************************************)
(* Derived-indicator calculators and traffic lights (app.py 258-317).      *)
(***************************************************************************)
Zero == Rat(0, 1)

\* Python's a / b on None, NaN or a number.
PyDiv(a, b) ==
    IF a.t = "None" \/ b.t = "None" THEN Raise("TypeError")
    ELSE IF a.t = "NaN" \/ b.t = "NaN" THEN NaN
    ELSE IF b = Zero THEN Raise("ZeroDivisionError")
    ELSE RDiv(a, b)

\* Python's a - b.
PySub(a, b) ==
    IF a.t = "None" \/ b.t = "None" THEN Raise("TypeError")
    ELSE IF a.t = "NaN" \/ b.t = "NaN" THEN NaN
    ELSE RSub(a, b)

\* Python's (x or 0): None and 0 are falsy, NaN is truthy.
OrZero(x) == IF x.t = "None" \/ x = Zero THEN Zero ELSE x

\* Python's a >= b and a > b between floats: False when either is NaN.
PyGe(a, b) == IsNum(a) /\ IsNum(b) /\ RGe(a, b)
PyGt(a, b) == IsNum(a) /\ IsNum(b) /\ RGt(a, b)

calc_tasa_ejecucion(devengado, vigente) ==
    IF vigente.t = "None" \/ vigente = Zero THEN None ELSE PyDiv(devengado, vigente)

calc_tasa_cobro(percibido, devengado) ==
    IF devengado.t = "None" \/ devengado = Zero THEN None ELSE PyDiv(percibido, devengado)

calc_tasa_pago(pagado, devengado) ==
    IF devengado.t = "None" \/ devengado = Zero THEN None ELSE PyDiv(pagado, devengado)

\* Mutant: the operands are subtracted without the "or 0" default.
calc_balance_fiscal_NoDefault(recursos_percibido, gastos_pagado) ==
    PySub(recursos_percibido, gastos_pagado)

calc_balance_fiscal(recursos_percibido, gastos_pagado) ==
    PySub(OrZero(recursos_percibido), OrZero(gastos_pagado))

calc_ratio_activo_pasivo(activo, pasivo) ==
    IF pasivo.t = "None" \/ pasivo = Zero THEN None ELSE PyDiv(activo, pasivo)

calc_per_capita(monto, poblacion) ==
    IF poblacion.t = "None" \/ poblacion = Zero THEN None ELSE PyDiv(monto, poblacion)

\* The classifiers' labels are written without their accents: "Optima",
\* "Superavit", "Deficit" and "Critico" stand for the accented labels of
\* the source; the colour of each (label, colour) pair follows its label.

\* Mutant: the thresholds are compared with > instead of >=.
get_semaforo_ejecucion_Strict(tasa) ==
    IF tasa.t = "None" THEN "Sin datos"
    ELSE IF PyGt(tasa, Rat(8, 10)) THEN "Optima"
    ELSE IF PyGt(tasa, Rat(5, 10)) THEN "Media"
    ELSE "Baja"

\* The third component of the returned tuple, the label.
get_semaforo_ejecucion(tasa) ==
    IF tasa.t = "None" THEN "Sin datos"
    ELSE IF PyGe(tasa, Rat(8, 10)) THEN "Optima"
    ELSE IF PyGe(tasa, Rat(5, 10)) THEN "Media"
    ELSE "Baja"

\* None > 0 raises TypeError; the label "raise TypeError" stands for it.
get_semaforo_balance(balance) ==
    IF balance.t = "None" THEN "raise TypeError"
    ELSE IF PyGt(balance, Zero) THEN "Superavit"
    ELSE IF balance = Zero THEN "Equilibrado"
    ELSE "Deficit"

get_semaforo_ratio(ratio) ==
    IF ratio.t = "None" THEN "Sin datos"
    ELSE IF PyGe(ratio, Rat(15, 10)) THEN "Saludable"
    ELSE IF PyGe(ratio, Rat(10, 10)) THEN "Ajustado"
    ELSE "Critico"

(***************************************************************************)
(* Map display value (app.py, create_choropleth_map, lines 863-897).       *)
(***************************************************************************)
\* MAP_METRICS: the column of each metric.
MAP_METRICS ==
    [metric \in {"recursos_percibido", "gastos_pagado", "balance_fiscal",
                 "tasa_ejecucion", "poblacion", "trabajadores"} |->
        CASE metric = "poblacion" -> "Muni_Poblacion_2022"
          [] metric = "trabajadores" -> "Muni_Cantidad_Trabajadores"
          [] OTHER -> metric]

NORMALIZATIONS == {"absoluto", "per_capita", "por_km2", "proyectado"}

\* d.get(key, default) of a dictionary, a function on its keys.
DictGet(d, key, default) == IF key \in DOMAIN d THEN d[key] ELSE default

\* Mutant: in "proyectado" mode the projected column is read whether the
\* row has it or not.
display_value_NoFallback(metric, normalization, muni_metrics, base_data) ==
    LET col0 == DictGet(MAP_METRICS, metric, MAP_METRICS["recursos_percibido"])
        col == IF normalization = "proyectado" THEN col0 \o "_proy" ELSE col0
        raw_value == IF col \in {"Muni_Poblacion_2022", "Muni_Cantidad_Trabajadores"}
                     THEN OrZero(DictGet(base_data, col, Zero))
                     ELSE OrZero(DictGet(muni_metrics, col, Zero))
        poblacion == OrZero(DictGet(base_data, "Muni_Poblacion_2022", Zero))
        superficie == OrZero(DictGet(base_data, "Muni_Superficie", Zero))
    IN IF normalization = "per_capita" /\ PyGt(poblacion, Zero) THEN PyDiv(raw_value, poblacion)
       ELSE IF normalization = "por_km2" /\ PyGt(superficie, Zero) THEN PyDiv(raw_value, superficie)
       ELSE raw_value

\* The display value of one municipality: muni_metrics is its row of the
\* aggregate table as a dictionary ({} without a row), base_data its row of
\* the base table ({} without one).
display_value(metric, normalization, muni_metrics, base_data) ==
    LET col0 == DictGet(MAP_METRICS, metric, MAP_METRICS["recursos_percibido"])
        col == IF normalization = "proyectado" /\ (col0 \o "_proy") \in DOMAIN muni_metrics
               THEN col0 \o "_proy" ELSE col0
        raw_value == IF col \in {"Muni_Poblacion_2022", "Muni_Cantidad_Trabajadores"}
                     THEN OrZero(DictGet(base_data, col, Zero))
                     ELSE OrZero(DictGet(muni_metrics, col, Zero))
        poblacion == OrZero(DictGet(base_data, "Muni_Poblacion_2022", Zero))
        superficie == OrZero(DictGet(base_data, "Muni_Superficie", Zero))
    IN IF normalization = "per_capita" /\ PyGt(poblacion, Zero) THEN PyDiv(raw_value, poblacion)
       ELSE IF normalization = "por_km2" /\ PyGt(superficie, Zero) THEN PyDiv(raw_value, superficie)
       ELSE raw_value

(***************************************************************************)
(* Metric aggregation pipeline (app.py, fetch_metricas_por_municipio).     *)
(* A table is a bag of rows: the sums do not depend on the row order.      *)
(***************************************************************************)
RECURSIVE SumF(_, _)
\* Series.sum(): the sum of f over the rows in S.
SumF(f, S) ==
    IF S = {} THEN Zero
    ELSE LET x == CHOOSE y \in S : TRUE
         IN RAdd(f[x], SumF(f, S \ {x}))

\* The rows of a table, each copy of an equal row counted.
Rows(B) == UNION {{[line |-> e, k |-> i] : i \in 1..CopiesIn(e, B)} : e \in BagToSet(B)}

\* Series.astype(str) of a document identifier.
astype_str(id) == IntToStr(id)

\* dict(zip(ID_DocumentoCargado.astype(str), ID_Municipio.astype(str))).
doc_to_muni(D) ==
    [key \in {astype_str(d.ID_DocumentoCargado) : d \in D} |->
        (CHOOSE d \in D : astype_str(d.ID_DocumentoCargado) = key).ID_Municipio]

\* Mutant: every line gets the period of the last document, not of its own.
doc_to_periodo_LastDoc(D) ==
    [key \in {astype_str(d.ID_DocumentoCargado) : d \in D} |->
        (CHOOSE d \in D : \A e \in D : e.ID_DocumentoCargado <= d.ID_DocumentoCargado).Doc_Periodo]

\* dict(zip(ID_DocumentoCargado.astype(str), Doc_Periodo)).
doc_to_periodo(D) ==
    [key \in {astype_str(d.ID_DocumentoCargado) : d \in D} |->
        (CHOOSE d \in D : astype_str(d.ID_DocumentoCargado) = key).Doc_Periodo]

\* A text pd.to_numeric reads as a number; of these the model has the plain
\* integers, an optional "-" before one or more digits.
IsIntText(s) ==
    LET body == IF s # <<>> /\ Head(s) = "-" THEN Tail(s) ELSE s
    IN body # <<>> /\ \A i \in 1..Len(body) : isdigit(body[i])
IntTextValue(s) ==
    IF Head(s) = "-" THEN Num(-StrToNat(Tail(s))) ELSE Num(StrToNat(s))

\* pd.to_numeric(col, errors="coerce") of one cell: a number stays, a numeric
\* text is read, None and every other text become NaN.
to_numeric(v) ==
    IF v.t = "num" THEN v
    ELSE IF v.t = "str" /\ IsIntText(v.s) THEN IntTextValue(v.s)
    ELSE NaN

\* Mutant: the digits of a text are kept, whatever else the text holds.
to_numeric_fillna0_Digits(v) ==
    IF v.t = "num" THEN v
    ELSE IF v.t = "str" THEN Num(StrToNat(OnlyDigits(v.s)))
    ELSE Zero

\* pd.to_numeric(col, errors="coerce").fillna(0) of one cell.
to_numeric_fillna0(v) ==
    LET x == to_numeric(v)
    IN IF x = NaN THEN Zero ELSE x

categorias_principales ==
    { <<"r", "e", "c", "u", "r", "s", "o", "s", " ", "d", "e", " ", "c", "a", "p", "i", "t", "a", "l">>,
      <<"i", "n", "g", "r", "e", "s", "o", "s", " ", "c", "o", "r", "r", "i", "e", "n", "t", "e", "s">>,
      <<"f", "u", "e", "n", "t", "e", "s", " ", "f", "i", "n", "a", "n", "c", "i", "e", "r", "a", "s">>,
      <<"d", "e", " ", "l", "i", "b", "r", "e", " ", "d", "i", "s", "p", "o", "n", "i", "b", "i", "l", "i", "d", "a", "d">>,
      <<"a", "f", "e", "c", "t", "a", "d", "o", "s">> }

categorias_extra ==
    { <<"e", "x", "t", "r", "a", "p", "r", "e", "s", "u", "p", "u", "e", "s", "t", "a", "r", "i", "o">>,
      <<"e", "x", "t", "r", "a", "p", "r", "e", "s", "u", "p", "u", "e", "s", "t", "a", "r", "i", "o", "s">> }

RecCols == {"Rec_Vigente", "Rec_Devengado", "Rec_Percibido",
            "Rec_Devengado_Proy", "Rec_Percibido_Proy"}
GasCols == {"Gasto_Vigente", "Gasto_Devengado", "Gasto_Pagado",
            "Gasto_Devengado_Proy", "Gasto_Pagado_Proy"}

\* Mutant: the category name is lower-cased but not trimmed.
nombre_norm_NoStrip(nombre) ==
    IF nombre.t = "str" THEN TextV(lower(nombre.s)) ELSE NaNV

\* Line 445, Rec_Nombre.str.strip().str.lower() of one cell: a cell that is no
\* text (None) becomes NaN.
nombre_norm(nombre) ==
    IF nombre.t = "str" THEN TextV(lower(strip(nombre.s))) ELSE NaNV

\* Series.isin(values) of one cell: NaN is in no list of texts.
isin(cell, values) == cell.t = "str" /\ cell.s \in values

\* Mutant: the amount is taken as it is, no factor applied.
proyectar_Raw(amount, factor) == amount

\* Lines 441-442 and 520-521: an amount of one line times the line's Factor_Proy.
proyectar(amount, factor) == RMul(amount, factor)

\* df_rec after lines 432-445: each row with its municipality (joined is
\* FALSE where Series.map finds no document and leaves NaN), its projection
\* factor, its coerced amounts, their projections and the normalized name.
df_rec(D, R) ==
    [r \in Rows(R) |->
        LET key == astype_str(r.line.ID_DocumentoCargado)
            hit == key \in DOMAIN doc_to_muni(D)
            factor == get_factor_proyeccion(IF hit THEN doc_to_periodo(D)[key] ELSE NaNV)
            dev == to_numeric_fillna0(r.line.Rec_Devengado)
            per == to_numeric_fillna0(r.line.Rec_Percibido)
        IN [joined |-> hit,
            ID_Municipio |-> IF hit THEN doc_to_muni(D)[key] ELSE "",
            Factor_Proy |-> factor,
            Rec_Vigente |-> to_numeric_fillna0(r.line.Rec_Vigente),
            Rec_Devengado |-> dev,
            Rec_Percibido |-> per,
            Rec_Devengado_Proy |-> proyectar(dev, factor),
            Rec_Percibido_Proy |-> proyectar(per, factor),
            Rec_Nombre_Norm |-> nombre_norm(r.line.Rec_Nombre)]]

\* df_gas after lines 511-521.
df_gas(D, G) ==
    [r \in Rows(G) |->
        LET key == astype_str(r.line.ID_DocumentoCargado)
            hit == key \in DOMAIN doc_to_muni(D)
            factor == get_factor_proyeccion(IF hit THEN doc_to_periodo(D)[key] ELSE NaNV)
            dev == to_numeric_fillna0(r.line.Gasto_Devengado)
            pag == to_numeric_fillna0(r.line.Gasto_Pagado)
        IN [joined |-> hit,
            ID_Municipio |-> IF hit THEN doc_to_muni(D)[key] ELSE "",
            Factor_Proy |-> factor,
            Gasto_Vigente |-> to_numeric_fillna0(r.line.Gasto_Vigente),
            Gasto_Devengado |-> dev,
            Gasto_Pagado |-> pag,
            Gasto_Devengado_Proy |-> proyectar(dev, factor),
            Gasto_Pagado_Proy |-> proyectar(pag, factor)]]

\* Mutant: the rows without a municipality form a group of their own.
groupby_sum_KeepNaN(frame, rows, cols) ==
    [mid \in {frame[r].ID_Municipio : r \in rows} |->
        [c \in cols |->
            SumF([r \in rows |-> frame[r][c]],
                 {r \in rows : frame[r].ID_Municipio = mid})]]

\* frame[rows].groupby("ID_Municipio").agg(sum of cols): one row per municipality
\* of the rows; a row whose municipality is NaN belongs to no group.
groupby_sum(frame, rows, cols) ==
    LET keyed == {r \in rows : frame[r].joined}
    IN [mid \in {frame[r].ID_Municipio : r \in keyed} |->
           [c \in cols |->
               SumF([r \in keyed |-> frame[r][c]],
                    {r \in keyed : frame[r].ID_Municipio = mid})]]

\* Mutant: the Principal sum is not halved.
formula_NoHalf(principal, extra) == RAdd(principal, extra)

\* The formula of lines 492-498 for one column.
formula(principal, extra) == RAdd(RDiv(principal, Rat(2, 1)), extra)

\* Column c of the revenue result for the Rec_ column it comes from.
RecursosName ==
    [c \in RecCols |->
        CASE c = "Rec_Vigente" -> "recursos_vigente"
          [] c = "Rec_Devengado" -> "recursos_devengado"
          [] c = "Rec_Percibido" -> "recursos_percibido"
          [] c = "Rec_Devengado_Proy" -> "recursos_devengado_proy"
          [] c = "Rec_Percibido_Proy" -> "recursos_percibido_proy"]
GastosName ==
    [c \in GasCols |->
        CASE c = "Gasto_Vigente" -> "gastos_vigente"
          [] c = "Gasto_Devengado" -> "gastos_devengado"
          [] c = "Gasto_Pagado" -> "gastos_pagado"
          [] c = "Gasto_Devengado_Proy" -> "gastos_devengado_proy"
          [] c = "Gasto_Pagado_Proy" -> "gastos_pagado_proy"]
RecursosCols == {RecursosName[c] : c \in RecCols}
GastosCols == {GastosName[c] : c \in GasCols}

\* rec_agg of lines 460-500: the outer merge of the two groupings, the gaps
\* filled with 0, then the formula.
rec_agg(D, R) ==
    LET frame == df_rec(D, R)
        df_principales == {r \in DOMAIN frame : isin(frame[r].Rec_Nombre_Norm, categorias_principales)}
        df_extra == {r \in DOMAIN frame : isin(frame[r].Rec_Nombre_Norm, categorias_extra)}
        principales_agg == groupby_sum(frame, df_principales, RecCols)
        extra_agg == groupby_sum(frame, df_extra, RecCols)
    IN [mid \in DOMAIN principales_agg \cup DOMAIN extra_agg |->
           [name \in RecursosCols |->
               LET c == CHOOSE c \in RecCols : RecursosName[c] = name
               IN formula(IF mid \in DOMAIN principales_agg THEN principales_agg[mid][c] ELSE Zero,
                          IF mid \in DOMAIN extra_agg THEN extra_agg[mid][c] ELSE Zero)]]

\* Mutant: the expenditure sums are halved as the Principal revenue sums are.
gas_agg_Halved(D, G) ==
    LET frame == df_gas(D, G)
        agg == groupby_sum(frame, DOMAIN frame, GasCols)
    IN [mid \in DOMAIN agg |->
           [name \in GastosCols |->
               RDiv(agg[mid][CHOOSE c \in GasCols : GastosName[c] = name], Rat(2, 1))]]

\* gas_agg of lines 523-530.
gas_agg(D, G) ==
    LET frame == df_gas(D, G)
        agg == groupby_sum(frame, DOMAIN frame, GasCols)
    IN [mid \in DOMAIN agg |->
           [name \in GastosCols |->
               agg[mid][CHOOSE c \in GasCols : GastosName[c] = name]]]

\* Mutant: the rate is computed whenever the budget is not zero.
tasa_lambda_NonZero(devengado, vigente) ==
    IF IsNum(vigente) /\ vigente # Zero THEN PyDiv(devengado, vigente) ELSE None

\* The lambda of lines 553 and 560.
tasa_lambda(devengado, vigente) ==
    IF PyGt(vigente, Zero) THEN PyDiv(devengado, vigente) ELSE None

\* The Series DataFrame.apply builds from the lambda's results: None next to a
\* number becomes NaN (float64); a column of nothing but None stays None.
apply_series(results) ==
    IF \E mid \in DOMAIN results : IsNum(results[mid])
    THEN [mid \in DOMAIN results |-> IF results[mid] = None THEN NaN ELSE results[mid]]
    ELSE results

\* Series.fillna(0) of one cell.
fillna0(v) == IF v = NaN THEN Zero ELSE v

\* Mutant: a key a municipality lacks is 0 in its row.
from_dict_FillZero(rec, gas) ==
    LET base == (IF DOMAIN rec # {} THEN RecursosCols ELSE {})
                \cup (IF DOMAIN gas # {} THEN GastosCols ELSE {})
    IN [columns |-> {"ID_Municipio"} \cup base,
        rows |-> [mid \in DOMAIN rec \cup DOMAIN gas |->
            [c \in base |->
                IF c \in RecursosCols
                THEN (IF mid \in DOMAIN rec THEN rec[mid][c] ELSE Zero)
                ELSE (IF mid \in DOMAIN gas THEN gas[mid][c] ELSE Zero)]]]

\* Mutant: the expenditure loop replaces a municipality's dictionary instead
\* of updating it, so the revenue keys of a municipality of both are lost.
from_dict_Overwrite(rec, gas) ==
    LET base == (IF DOMAIN rec # {} THEN RecursosCols ELSE {})
                \cup (IF DOMAIN gas # {} THEN GastosCols ELSE {})
    IN [columns |-> {"ID_Municipio"} \cup base,
        rows |-> [mid \in DOMAIN rec \cup DOMAIN gas |->
            [c \in base |->
                IF c \in RecursosCols
                THEN (IF mid \in DOMAIN rec /\ mid \notin DOMAIN gas THEN rec[mid][c] ELSE NaN)
                ELSE (IF mid \in DOMAIN gas THEN gas[mid][c] ELSE NaN)]]]

\* Lines 502-541: the dictionary metrics filled from rec_agg and gas_agg, and
\* the frame built from it: its columns are the keys any municipality has, and
\* a key a municipality lacks is NaN in its row.
from_dict(rec, gas) ==
    LET base == (IF DOMAIN rec # {} THEN RecursosCols ELSE {})
                \cup (IF DOMAIN gas # {} THEN GastosCols ELSE {})
    IN [columns |-> {"ID_Municipio"} \cup base,
        rows |-> [mid \in DOMAIN rec \cup DOMAIN gas |->
            [c \in base |->
                IF c \in RecursosCols
                THEN (IF mid \in DOMAIN rec THEN rec[mid][c] ELSE NaN)
                ELSE (IF mid \in DOMAIN gas THEN gas[mid][c] ELSE NaN)]]]

\* df[name] = series: the frame with one more column.
with_column(df, name, series) ==
    [columns |-> df.columns \cup {name},
     rows |-> [mid \in DOMAIN df.rows |->
         [c \in DOMAIN df.rows[mid] \cup {name} |->
             IF c = name THEN series[mid] ELSE df.rows[mid][c]]]]

\* Lines 544-545 and 548-549: a.fillna(0) - b.fillna(0) when both columns exist.
add_balance(df, name, a, b) ==
    IF {a, b} \subseteq df.columns
    THEN with_column(df, name,
             [mid \in DOMAIN df.rows |->
                 RSub(fillna0(df.rows[mid][a]), fillna0(df.rows[mid][b]))])
    ELSE df

\* Lines 551-555 and 558-562: the rate column when both columns exist.
add_tasa(df, name, devengado, vigente) ==
    IF {devengado, vigente} \subseteq df.columns
    THEN with_column(df, name,
             apply_series([mid \in DOMAIN df.rows |->
                 tasa_lambda(df.rows[mid][devengado], df.rows[mid][vigente])]))
    ELSE df

\* Lines 543-562: the derived columns, in the order the code adds them.
derived_columns(df) ==
    add_tasa(
        add_tasa(
            add_balance(
                add_balance(df, "balance_fiscal", "recursos_percibido", "gastos_pagado"),
                "balance_fiscal_proy", "recursos_percibido_proy", "gastos_pagado_proy"),
            "tasa_ejecucion", "gastos_devengado", "gastos_vigente"),
        "tasa_ejecucion_proy", "gastos_devengado_proy", "gastos_vigente")

\* Lines 430-564 for a non-empty document table.
build_metrics(D, R, G) ==
    derived_columns(
        from_dict(IF R = EmptyBag THEN <<>> ELSE rec_agg(D, R),
                  IF G = EmptyBag THEN <<>> ELSE gas_agg(D, G)))

\* pd.DataFrame(): no column, no row.
EmptyDataFrame == [columns |-> {}, rows |-> <<>>]

\* The table fetch_metricas_por_municipio returns for the store (D, R, G).
fetch_metricas_por_municipio(D, R, G) ==
    IF D = {} THEN EmptyDataFrame ELSE build_metrics(D, R, G)

(***************************************************************************)
(* The fetch boundary (app.py 33-35, 359-412): the guard on the connection *)
(* secrets and the except clause every fetch function has.                 *)
(***************************************************************************)
\* bool(SUPABASE_URL and SUPABASE_KEY).
USE_SUPABASE == SUPABASE_URL # "" /\ SUPABASE_KEY # ""

\* A message returned in the place of None.
ErrMsg(m) == [t |-> "msg", m |-> m]

\* Mutant: the fetch does not look at USE_SUPABASE.
fetch_result_NoGuard(sentinel, table) ==
    IF ~store_up THEN [df |-> EmptyDataFrame, err |-> ErrMsg("repr(e)")]
    ELSE [df |-> table, err |-> None]

\* The pair a fetch function returns: the sentinel without the secrets, the
\* description of the exception when a call of the store fails (get_sb_client,
\* execute or _raise_if_error raising inside the try), else the table.
fetch_result(sentinel, table) ==
    IF ~USE_SUPABASE THEN [df |-> EmptyDataFrame, err |-> ErrMsg(sentinel)]
    ELSE IF ~store_up THEN [df |-> EmptyDataFrame, err |-> ErrMsg("repr(e)")]
    ELSE [df |-> table, err |-> None]

\* The table bd_municipios: identifiers as a number and as a text, amounts
\* as numbers, missing and as a text that is no number.
bd_municipios ==
    { [ID_Municipio |-> "A", id_georef |-> IntV(6007), Muni_Poblacion_2022 |-> Num(2),
       Muni_Superficie |-> Num(4), Muni_Cantidad_Trabajadores |-> None],
      [ID_Municipio |-> "B", id_georef |-> TextV(<<"0", "6", "0", "1", "4">>),
       Muni_Poblacion_2022 |-> TextV(<<"1", "x">>), Muni_Superficie |-> Num(0),
       Muni_Cantidad_Trabajadores |-> Num(3)] }

\* Lines 369-375: the table of fetch_municipios_base, its rows by ID_Municipio.
municipios_base(data) ==
    [columns |-> IF data = {} THEN {}
                 ELSE {"ID_Municipio", "id_georef", "Muni_Poblacion_2022",
                       "Muni_Superficie", "Muni_Cantidad_Trabajadores"},
     rows |-> [mid \in {m.ID_Municipio : m \in data} |->
         LET m == CHOOSE m \in data : m.ID_Municipio = mid
         IN [id_georef |-> norm_georef(m.id_georef),
             Muni_Poblacion_2022 |-> to_numeric_fillna0(m.Muni_Poblacion_2022),
             Muni_Superficie |-> to_numeric_fillna0(m.Muni_Superficie),
             Muni_Cantidad_Trabajadores |-> to_numeric_fillna0(m.Muni_Cantidad_Trabajadores)]]]

\* Lines 389-393: the documents counted by municipality.
documentos_count(D) ==
    [columns |-> {"ID_Municipio", "documentos_cargados"},
     rows |-> [mid \in {d.ID_Municipio : d \in D} |->
         [documentos_cargados |-> Cardinality({d \in D : d.ID_Municipio = mid})]]]

\* Lines 594-605: fetch_gastos(doc_id) on the table bd_gastos G: the lines
\* whose ID_DocumentoCargado is doc_id, as a bag.
gastos_de(doc_id, G) ==
    LET S == {e \in BagToSet(G) : astype_str(e.ID_DocumentoCargado) = doc_id}
    IN IF S = {} THEN EmptyDataFrame
       ELSE [columns |-> {"Gasto_Vigente", "Gasto_Devengado", "Gasto_Pagado"},
             rows |-> [e \in S |-> CopiesIn(e, G)]]

fetch_gastos(doc_id, G) ==
    IF doc_id = <<>>
    THEN [df |-> EmptyDataFrame, err |-> ErrMsg("SUPABASE DESACTIVADO o sin doc")]
    ELSE fetch_result("SUPABASE DESACTIVADO o sin doc", gastos_de(doc_id, G))

(***************************************************************************)
(* st.cache_data(ttl=...) around the fetch functions (app.py 359, 380,     *)
(* 398, 594): results are stored by function and arguments, and a stored   *)
(* result is returned, the function not run, until its time-to-live ends.  *)
(***************************************************************************)
\* The ttl of each decorator, in seconds.
TTL ==
    [name \in {"fetch_municipios_base", "fetch_documentos_count",
               "fetch_metricas_por_municipio", "fetch_gastos"} |->
        CASE name = "fetch_municipios_base" -> 3600
          [] name = "fetch_gastos" -> 60
          [] OTHER -> 300]

\* Mutant: the arguments are no part of the key.
cache_key_NoArgs(name, a) == <<name, <<>>>>

cache_key(name, a) == <<name, a>>

\* Mutant: a result with an error description is returned and not stored.
storable_NoErrors(value) == value.err = None

\* Every returned value is stored, whatever it holds.
storable(value) == TRUE

\* The outcomes of a call of the decorated function name on a, whose body
\* would return result: the stored value while it is younger than the ttl,
\* the body's result once it is older or when nothing is stored, either at
\* the instant the ttl ends.
cache_data(name, a, result) ==
    LET key == cache_key(name, a)
        hit == [value |-> cache[key].value, hit |-> TRUE]
        miss == [value |-> result, hit |-> FALSE]
    IN IF key \notin DOMAIN cache THEN {miss}
       ELSE IF now - cache[key].stored_at < TTL[name] THEN {hit}
       ELSE IF now - cache[key].stored_at = TTL[name] THEN {hit, miss}
       ELSE {miss}

\* The cache and the record of the store being called after the outcome o
\* of a call; asks: the body calls the store.
Stored(name, a, o, asks) ==
    /\ cache' = IF o.hit \/ ~storable(o.value) THEN cache
                ELSE [k \in DOMAIN cache \cup {cache_key(name, a)} |->
                         IF k = cache_key(name, a)
                         THEN [value |-> o.value, stored_at |-> now]
                         ELSE cache[k]]
    /\ queried' = (~o.hit /\ asks)
    /\ contacted' = (contacted \/ (~o.hit /\ asks))

(***************************************************************************)
(* The store the fetch reads, and the fetch.                               *)
(***************************************************************************)
DocIds == {1, 2}
Municipios == {"A", "B"}
Periodos == {TextV(<<"Q", "1">>), TextV(<<"q", "3">>)}
\* Category names as stored: a Principal one with capitals and a trailing
\* blank, an Extra-budgetary one, one of no category of the formula, and a
\* missing one.
NombrePrincipal ==
    TextV(<<"I", "n", "g", "r", "e", "s", "o", "s", " ", "C", "o", "r", "r", "i", "e", "n", "t", "e", "s", " ">>)
NombreExtra ==
    TextV(<<"e", "x", "t", "r", "a", "p", "r", "e", "s", "u", "p", "u", "e", "s", "t", "a", "r", "i", "o">>)
NombreOtros == TextV(<<"o", "t", "r", "o", "s">>)
RecNombres == {NombrePrincipal, NombreExtra, NombreOtros, NoneV}
\* Amounts (budgeted, accrued, collected or paid) as stored; the last triple
\* has a missing amount and a text that is no number.
RecZeros == <<Num(0), Num(0), Num(0)>>
RecBase == <<Num(1000), Num(800), Num(600)>>
RecAmounts == { RecZeros, RecBase, <<None, TextV(<<"1", "x">>), Num(600)>> }
\* The revenue lines a document may have, as <<name, amounts>>: Principal
\* lines with each of the amounts, the other names with one amount each.
RecLineas ==
    ({NombrePrincipal} \X RecAmounts)
    \cup ({NombreExtra, NoneV} \X {RecBase})
    \cup ({NombreOtros} \X {RecZeros})
GasAmounts == { <<Num(0), Num(0), Num(0)>>, <<Num(400), Num(300), Num(200)>>,
                <<Num(-400), Num(300), Num(200)>>,
                <<TextV(<<"1", "x">>), None, Num(200)>> }

Documentos ==
    [ID_DocumentoCargado : DocIds, ID_Municipio : Municipios, Doc_Periodo : Periodos]
Recursos ==
    {[ID_DocumentoCargado |-> id, Rec_Nombre |-> l[1],
      Rec_Vigente |-> l[2][1], Rec_Devengado |-> l[2][2], Rec_Percibido |-> l[2][3]] :
        id \in DocIds, l \in RecLineas}
Gastos ==
    {[ID_DocumentoCargado |-> id,
      Gasto_Vigente |-> a[1], Gasto_Devengado |-> a[2], Gasto_Pagado |-> a[3]] :
        id \in DocIds, a \in GasAmounts}

\* A document is uploaded; ID_DocumentoCargado is the table's key.
LoadDocumento ==
    \E d \in Documentos :
        /\ pc = "load"
        /\ \A e \in docs : e.ID_DocumentoCargado # d.ID_DocumentoCargado
        /\ docs' = docs \cup {d}
        /\ UNCHANGED <<recs, gass, pc, df_metrics, err_metrics, envVars, contacted, cacheVars, uiVars,
                       fn, args, ret>>

\* A revenue line is stored; its document may not be in the document table.
LoadRecurso ==
    \E e \in Recursos :
        /\ pc = "load"
        /\ BagCardinality(recs) + BagCardinality(gass) < MaxLines
        /\ recs' = recs (+) SetToBag({e})
        /\ UNCHANGED <<docs, gass, pc, df_metrics, err_metrics, envVars, contacted, cacheVars, uiVars,
                       fn, args, ret>>

\* An expenditure line is stored.
LoadGasto ==
    \E e \in Gastos :
        /\ pc = "load"
        /\ BagCardinality(recs) + BagCardinality(gass) < MaxLines
        /\ gass' = gass (+) SetToBag({e})
        /\ UNCHANGED <<docs, recs, pc, df_metrics, err_metrics, envVars, contacted, cacheVars, uiVars,
                       fn, args, ret>>

\* fetch_metricas_por_municipio() runs on the store as it is; main() keeps
\* the returned pair in df_metrics, err_metrics (line 2481).
FetchMetricas ==
    /\ pc = "load"
    /\ \E o \in cache_data("fetch_metricas_por_municipio", <<>>,
                            fetch_result("SUPABASE DESACTIVADO",
                                         fetch_metricas_por_municipio(docs, recs, gass))) :
           /\ df_metrics' = o.value.df
           /\ err_metrics' = o.value.err
           /\ Stored("fetch_metricas_por_municipio", <<>>, o, USE_SUPABASE)
    /\ pc' = "done"
    /\ UNCHANGED <<docs, recs, gass, envVars, now, uiVars, fn, args, ret>>

\* fetch_municipios_base() is called (line 2479).
FetchMunicipiosBase ==
    /\ pc = "load"
    /\ fn' = "fetch_municipios_base"
    /\ args' = <<>>
    /\ \E o \in cache_data("fetch_municipios_base", <<>>,
                            fetch_result("SUPABASE DESACTIVADO",
                                         municipios_base(bd_municipios))) :
           /\ ret' = o.value
           /\ Stored("fetch_municipios_base", <<>>, o, USE_SUPABASE)
    /\ UNCHANGED <<docs, recs, gass, pc, df_metrics, err_metrics, envVars, now, uiVars>>

\* fetch_documentos_count() is called (line 2480).
FetchDocumentosCount ==
    /\ pc = "load"
    /\ fn' = "fetch_documentos_count"
    /\ args' = <<>>
    /\ \E o \in cache_data("fetch_documentos_count", <<>>,
                            fetch_result("SUPABASE DESACTIVADO", documentos_count(docs))) :
           /\ ret' = o.value
           /\ Stored("fetch_documentos_count", <<>>, o, USE_SUPABASE)
    /\ UNCHANGED <<docs, recs, gass, pc, df_metrics, err_metrics, envVars, now, uiVars>>

\* fetch_gastos(doc_id) is called for a document of the selector (line 2583).
FetchGastos ==
    \E doc_id \in {astype_str(id) : id \in DocIds} :
        /\ fn' = "fetch_gastos"
        /\ args' = <<doc_id>>
        /\ \E o \in cache_data("fetch_gastos", <<doc_id>>, fetch_gastos(doc_id, gass)) :
               /\ ret' = o.value
               /\ Stored("fetch_gastos", <<doc_id>>, o, USE_SUPABASE /\ doc_id # <<>>)
        /\ UNCHANGED <<docs, recs, gass, pc, df_metrics, err_metrics, envVars, now, uiVars>>

\* Time passes.
Tick ==
    /\ now + TickStep <= MaxClock
    /\ now' = now + TickStep
    /\ UNCHANGED <<calcVars, docs, recs, gass, pc, df_metrics, err_metrics, envVars,
                   contacted, cache, queried, uiVars>>

\* The store starts to fail, or answers again.
StoreToggles ==
    /\ store_up' = ~store_up
    /\ UNCHANGED <<calcVars, docs, recs, gass, pc, df_metrics, err_metrics,
                   SUPABASE_URL, SUPABASE_KEY, contacted, cacheVars, uiVars>>

NextAgg ==
    \/ LoadDocumento
    \/ LoadRecurso
    \/ LoadGasto
    \/ FetchMetricas

(***************************************************************************)
(* The views main() draws from the fetched tables (app.py 829-897,         *)
(* 1271-1346).                                                             *)
(***************************************************************************)
\* DataFrame.empty: no row or no column.
empty(df) == DOMAIN df.rows = {} \/ df.columns = {}

\* df[df["ID_Municipio"].astype(str) == str(muni_id)].iloc[0].to_dict(), {} when
\* no row matches.
row_to_dict(df, muni_id) ==
    IF ~empty(df) /\ muni_id \in DOMAIN df.rows THEN df.rows[muni_id] ELSE <<>>

\* Line 1303: muni_metrics.get("tasa_ejecucion").
tasa_ejec_muni(muni_metrics) == DictGet(muni_metrics, "tasa_ejecucion", None)

\* Lines 1281-1346: the figures and the two traffic lights of the municipality
\* view; only a warning when the registry has no row of the municipality.
render_municipio_kpis(base, metrics, muni_id) ==
    IF empty(base) \/ muni_id \notin DOMAIN base.rows
    THEN [warning |-> "No se encontraron datos base del municipio."]
    ELSE LET muni_metrics == row_to_dict(metrics, muni_id)
             recursos_muni == OrZero(DictGet(muni_metrics, "recursos_percibido", Zero))
             gastos_muni == OrZero(DictGet(muni_metrics, "gastos_pagado", Zero))
             balance_muni == PySub(recursos_muni, gastos_muni)
         IN [balance_muni |-> balance_muni,
             estado_balance |-> get_semaforo_balance(balance_muni),
             tasa_ejec_muni |-> tasa_ejec_muni(muni_metrics),
             estado_ejecucion |-> get_semaforo_ejecucion(tasa_ejec_muni(muni_metrics))]

\* The municipality view is drawn for a municipality of the registry
\* (main, lines 2549-2554).
RenderMunicipioKpis ==
    \E muni_id \in Municipios :
        /\ pc = "done"
        /\ fn' = "render_municipio_kpis"
        /\ args' = <<muni_id>>
        /\ ret' = render_municipio_kpis(municipios_base(bd_municipios), df_metrics, muni_id)
        /\ pc' = "view"
        /\ UNCHANGED <<docs, recs, gass, df_metrics, err_metrics, envVars, contacted, cacheVars,
                       uiVars>>

\* The id_georef of the features of the boundary file: those of the
\* registry's municipalities and one the registry does not have.
FeatureIds ==
    { <<"0", "6", "0", "0", "7">>, <<"0", "6", "0", "1", "4">>, <<"0", "6", "9", "9", "9">> }

\* The fiscal metrics the map is drawn for.
FiscalMetrics == {"gastos_pagado", "tasa_ejecucion"}

\* Lines 841-897: the display value of every feature.  base_data is the row
\* of the registry with the feature's id_georef, muni_metrics the row of the
\* aggregate table of that row's municipality; {} where there is none.
create_choropleth_map(df_metricas, df_base, metric, normalization) ==
    [gid \in FeatureIds |->
        LET found == {mid \in DOMAIN df_base.rows : df_base.rows[mid].id_georef = gid}
            muni_id == CHOOSE mid \in found : TRUE
            base_data == IF found = {} THEN <<>> ELSE df_base.rows[muni_id]
            muni_metrics == IF found = {} THEN <<>> ELSE row_to_dict(df_metricas, muni_id)
        IN display_value(metric, normalization, muni_metrics, base_data)]

\* The map is drawn from the aggregate table and the registry (main, line
\* 2507), for the metric and the normalization of the sidebar.
CreateChoroplethMap ==
    \E metric \in FiscalMetrics, normalization \in NORMALIZATIONS :
        /\ pc = "done"
        /\ fn' = "create_choropleth_map"
        /\ args' = <<metric, normalization>>
        /\ ret' = create_choropleth_map(df_metrics, municipios_base(bd_municipios),
                                        metric, normalization)
        /\ pc' = "view"
        /\ UNCHANGED <<docs, recs, gass, df_metrics, err_metrics, envVars, contacted, cacheVars,
                       uiVars>>

NextView ==
    \/ LoadDocumento
    \/ LoadRecurso
    \/ LoadGasto
    \/ FetchMetricas
    \/ RenderMunicipioKpis
    \/ CreateChoroplethMap

(***************************************************************************)
(* The joins on a document or municipality identifier (app.py 414-433,     *)
(* 842-872, 1281-1282, 1400-1404, 2493-2496).  An identifier is a number   *)
(* or a text as the store holds it; a join gives "match", "no match" or    *)
(* "raise ValueError".                                                     *)
(***************************************************************************)
\* The dtype of a column that holds the identifier x.
dtype(x) == IF x.t = "int" THEN "int64" ELSE "object"

\* The key a dictionary lookup or an == of texts works with: Series.astype(str)
\* and str() of the identifier.
as_key(x) == TextV(str(x))

\* DataFrame.merge(on=key) of two one-row frames: the outcomes for the key
\* values left and right.  Key columns of a numeric and of an object dtype
\* are refused with ValueError (pandas from 0.23) or, before, compared as
\* they are and never equal.
merge_on(left, right) ==
    IF dtype(left) # dtype(right) THEN {"raise ValueError", "no match"}
    ELSE IF left = right THEN {"match"} ELSE {"no match"}

\* Lines 414 and 432: df_rec["ID_DocumentoCargado"].astype(str).map(doc_to_muni)
\* for the identifier of a line and that of a document.
doc_to_muni_lookup(line_id, doc_id) ==
    IF as_key(line_id) = as_key(doc_id) THEN {"match"} ELSE {"no match"}

\* Lines 844, 852 and 872: metrics_lookup.get(muni_id) in create_choropleth_map;
\* the table's ID_Municipio is the text of line 414.
metrics_lookup(doc_muni, base_muni) ==
    IF as_key(doc_muni) = as_key(base_muni) THEN {"match"} ELSE {"no match"}

\* Line 1282: df_metrics["ID_Municipio"].astype(str) == str(muni_id), muni_id
\* being str(r["ID_Municipio"]) of the registry (line 1170).
row_metrics_filter(doc_muni, base_muni) ==
    IF as_key(as_key(doc_muni)) = as_key(as_key(base_muni)) THEN {"match"} ELSE {"no match"}

\* Lines 1400-1404: df_metrics.merge(df_base[...], on="ID_Municipio").
df_chart_merge(doc_muni, base_muni) == merge_on(as_key(doc_muni), base_muni)

\* Lines 2494-2495: df_base.merge(df_docs_count, on="ID_Municipio"); the count
\* is grouped by the ID_Municipio of the document table as stored.
df_base_merge(doc_muni, base_muni) == merge_on(base_muni, doc_muni)

JoinSites ==
    {"doc_to_muni_lookup", "metrics_lookup", "row_metrics_filter",
     "df_chart_merge", "df_base_merge"}

join_at(site, a, b) ==
    CASE site = "doc_to_muni_lookup" -> doc_to_muni_lookup(a, b)
      [] site = "metrics_lookup" -> metrics_lookup(a, b)
      [] site = "row_metrics_filter" -> row_metrics_filter(a, b)
      [] site = "df_chart_merge" -> df_chart_merge(a, b)
      [] site = "df_base_merge" -> df_base_merge(a, b)

(***************************************************************************)
(* Session state (app.py 57-86).  st.session_state is a dictionary: a      *)
(* function on the keys that are set.                                      *)
(***************************************************************************)
DEFAULT_STATE ==
    [key \in {"municipio_sel", "municipio_nombre", "municipio_georef", "map_metric",
              "map_normalization", "filter_jurisdiccion", "filter_programa"} |->
        CASE key = "map_metric" -> TextV(<<"recursos_percibido">>)
          [] key = "map_normalization" -> TextV(<<"absoluto">>)
          [] OTHER -> NoneV]

\* ss with the keys of d set to the values of d.
update(ss, d) ==
    [key \in DOMAIN ss \cup DOMAIN d |-> IF key \in DOMAIN d THEN d[key] ELSE ss[key]]

\* The value of a key of the session state; Unset when the key is not set.
Unset == [t |-> "unset"]

Get(ss, key) == IF key \in DOMAIN ss THEN ss[key] ELSE Unset

\* Mutant: every key is set to its default.
init_session_state_Overwrite(ss) == update(ss, DEFAULT_STATE)

init_session_state(ss) ==
    [key \in DOMAIN ss \cup DOMAIN DEFAULT_STATE |->
        IF key \in DOMAIN ss THEN ss[key] ELSE DEFAULT_STATE[key]]

reset_to_provincial(ss) ==
    update(ss, [key \in {"municipio_sel", "municipio_nombre", "municipio_georef",
                         "filter_jurisdiccion", "filter_programa"} |-> NoneV])

\* Mutant: the georef of the selection is not stored.
select_municipio_NoGeoref(ss, id_municipio, nombre, georef) ==
    update(ss, [key \in {"municipio_sel", "municipio_nombre"} |->
                   IF key = "municipio_sel" THEN id_municipio ELSE nombre])

select_municipio(ss, id_municipio, nombre, georef) ==
    update(ss, [key \in {"municipio_sel", "municipio_nombre", "municipio_georef"} |->
                   CASE key = "municipio_sel" -> id_municipio
                     [] key = "municipio_nombre" -> nombre
                     [] key = "municipio_georef" -> georef])

\* The arguments select_municipio is called with (line 1177): the identifier,
\* name and georef of a row of the registry, as texts.
Selecciones ==
    { <<TextV(<<"A">>), TextV(<<"Adolfo Alsina">>), TextV(<<"06007">>)>>,
      <<TextV(<<"B">>), TextV(<<"Alberti">>), TextV(<<"06014">>)>> }

InitSessionState ==
    /\ fn' = "init_session_state"
    /\ args' = <<>>
    /\ ret' = None
    /\ session_state' = init_session_state(session_state)
    /\ UNCHANGED <<storeVars, widgets, pending, reruns>>

ResetToProvincial ==
    /\ fn' = "reset_to_provincial"
    /\ args' = <<>>
    /\ ret' = None
    /\ session_state' = reset_to_provincial(session_state)
    /\ UNCHANGED <<storeVars, widgets, pending, reruns>>

SelectMunicipio ==
    \E a \in Selecciones :
        /\ fn' = "select_municipio"
        /\ args' = a
        /\ ret' = None
        /\ session_state' = select_municipio(session_state, a[1], a[2], a[3])
        /\ UNCHANGED <<storeVars, widgets, pending, reruns>>

NextSession ==
    \/ InitSessionState
    \/ ResetToProvincial
    \/ SelectMunicipio

(***************************************************************************)
(* The sidebar (app.py 1098-1185).  Streamlit runs the script from the top *)
(* after every user input and after every st.rerun().  A widget without a  *)
(* key is identified by its parameters: when the index it is created with  *)
(* changes, or when it was not drawn in the last run, it is a new widget   *)
(* and shows the option at that index; otherwise it shows what the user    *)
(* chose last.  A button is True only in the run its click started.        *)
(***************************************************************************)
\* opciones_nombre: the provincial view, then the registry sorted by name.
opciones_nombre == <<VistaProvincial, "Adolfo Alsina", "Alberti">>

Options == {opciones_nombre[i] : i \in DOMAIN opciones_nombre}

\* The keys of MAP_METRICS and NORMALIZATIONS the widgets offer.
MetricOptions == {"recursos_percibido", "gastos_pagado"}
NormOptions == {"absoluto", "proyectado"}

\* The row of df_base with that name, with its identifier and georef as
\* texts (lines 1172-1175).
row_by_name(name) == CHOOSE a \in Selecciones : a[2] = TextV(<<name>>)

\* What a widget returns: its stored choice if it is the widget of the last
\* run, the option at its index otherwise.
widget_value(created_with, index, stored) ==
    IF created_with = index THEN stored ELSE index

\* Mutant: the selector is always created on its first option.
current_idx_Zero(ss) == VistaProvincial

\* Lines 1146-1149; the index is written as the option it points at.
current_idx(ss) ==
    LET nombre == Get(ss, "municipio_nombre") IN
    IF nombre # NoneV /\ nombre # Unset /\ nombre.s[1] \in Options
    THEN nombre.s[1] ELSE VistaProvincial

\* One run of render_sidebar_controls over the session state ss and the
\* widgets w, with the registry loaded or not: the session state and the
\* widgets it leaves, the calls it made, and whether it ended in st.rerun().
render_sidebar_controls(ss, w, base_ok) ==
    LET ss1 == init_session_state(ss)
        metric_index == ss1["map_metric"].s[1]
        metric == widget_value(w.metric_index, metric_index, w.metric)
        ss2 == update(ss1, [key \in {"map_metric"} |-> TextV(<<metric>>)])
        norm_index == ss2["map_normalization"].s[1]
        norm == widget_value(w.normalization_index, norm_index, w.normalization)
        ss3 == update(ss2, [key \in {"map_normalization"} |-> TextV(<<norm>>)])
        index == IF base_ok THEN current_idx(ss3) ELSE "not drawn"
        selected_name == widget_value(w.index, index, w.municipio)
        w1 == [municipio |-> selected_name, index |-> index,
               metric |-> metric, metric_index |-> metric_index,
               normalization |-> norm, normalization_index |-> norm_index,
               volver |-> FALSE]
        r == row_by_name(selected_name)
        to_provincial == /\ base_ok
                         /\ selected_name = VistaProvincial
                         /\ ss3["municipio_sel"] # NoneV
        to_municipio == /\ base_ok
                        /\ selected_name # VistaProvincial
                        /\ ss3["municipio_sel"] # r[1]
    IN  CASE to_provincial ->
                [ss |-> reset_to_provincial(ss3), w |-> w1, rerun |-> TRUE,
                 calls |-> <<"init_session_state", "reset_to_provincial", "st.rerun">>]
          [] to_municipio ->
                [ss |-> select_municipio(ss3, r[1], r[2], r[3]), w |-> w1, rerun |-> TRUE,
                 calls |-> <<"init_session_state", "select_municipio", "st.rerun">>]
          [] OTHER ->
                IF ss3["municipio_sel"] # NoneV /\ w.volver
                THEN [ss |-> reset_to_provincial(ss3), w |-> w1, rerun |-> TRUE,
                      calls |-> <<"init_session_state", "reset_to_provincial", "st.rerun">>]
                ELSE [ss |-> ss3, w |-> w1, rerun |-> FALSE,
                      calls |-> <<"init_session_state">>]

\* A run of the script that is due reaches the sidebar.
RenderSidebarControls ==
    /\ pending
    /\ reruns < MaxReruns
    /\ \E base_ok \in BOOLEAN :
        LET o == render_sidebar_controls(session_state, widgets, base_ok) IN
        /\ fn' = "render_sidebar_controls"
        /\ args' = o.calls
        /\ ret' = None
        /\ session_state' = o.ss
        /\ widgets' = o.w
        /\ pending' = o.rerun
        /\ reruns' = IF o.rerun THEN reruns + 1 ELSE reruns
    /\ UNCHANGED storeVars

\* The user's inputs, each of which starts a run of the script.
UserInput(w) ==
    /\ ~pending
    /\ fn' = "user input"
    /\ args' = <<>>
    /\ ret' = None
    /\ widgets' = w
    /\ pending' = TRUE
    /\ reruns' = 0
    /\ UNCHANGED <<storeVars, session_state>>

UserSelectsMunicipio ==
    \E name \in Options \ {widgets.municipio} :
        /\ widgets.index # "not drawn"
        /\ UserInput([widgets EXCEPT !.municipio = name])

UserSelectsMetric ==
    \E m \in MetricOptions \ {widgets.metric} : UserInput([widgets EXCEPT !.metric = m])

UserSelectsNormalization ==
    \E n \in NormOptions \ {widgets.normalization} :
        UserInput([widgets EXCEPT !.normalization = n])

\* The button is drawn when a municipality is selected (line 1181).
UserClicksVolver ==
    /\ Get(session_state, "municipio_sel") \notin {NoneV, Unset}
    /\ UserInput([widgets EXCEPT !.volver = TRUE])

NextSidebar ==
    \/ RenderSidebarControls
    \/ UserSelectsMunicipio
    \/ UserSelectsMetric
    \/ UserSelectsNormalization
    \/ UserClicksVolver

(***************************************************************************)
(* Calls of the pure helpers: the inputs each is tried on.                 *)
(***************************************************************************)
SeqsUpTo(S, k) == UNION {[1..j -> S] : j \in 0..k}

GeorefAlphabet == {"0", "6", "7", ".", " ", "x"}
GeorefTexts ==
    { <<"0", "6", "0", "0", "7">>,
      <<"6", "0", "0", "7", ".", "0">>,
      <<" ", "6", "0", "0", "7", " ">>,
      <<"0", "6", "0", "0", "7", "0">> }
GeorefInputs ==
    {NoneV}
    \cup {TextV(s) : s \in SeqsUpTo(GeorefAlphabet, MaxLen) \cup GeorefTexts}
    \cup {IntV(i) : i \in {0, 12, 6007, 123456}}
    \cup {FloatV(i, f) : i \in {12, 6007}, f \in {0, 5}}

PeriodAlphabet == {"q", "Q", "1", "3", "5", " "}
PeriodPads == {<<>>, <<" ">>}
PeriodTexts ==
    LET known == PeriodosQ1 \cup PeriodosQ2 \cup PeriodosQ3 \cup PeriodosQ4
                 \cup DOMAIN FACTORES_PROYECCION
        cased == known \cup {lower(s) : s \in known} \cup {upper(s) : s \in known}
    IN {l \o s \o r : l \in PeriodPads, s \in cased, r \in PeriodPads}
PeriodInputs ==
    {NoneV}
    \cup {TextV(s) : s \in SeqsUpTo(PeriodAlphabet, MaxLen) \cup PeriodTexts}
    \cup {IntV(i) : i \in 0..5}
    \cup {FloatV(i, 0) : i \in 1..4}

Operands == {None} \cup {Num(i) : i \in -MaxNum..MaxNum}
ClassifierInputs ==
    {None, NaN} \cup {Rat(i, j) : i \in -MaxNum..(2 * MaxDen), j \in 1..MaxDen}

RatioCalculators ==
    {"calc_tasa_ejecucion", "calc_tasa_cobro", "calc_tasa_pago",
     "calc_ratio_activo_pasivo", "calc_per_capita"}

AmountAlphabet == {"1", "5", ".", ",", "-", "x", " "}
AmountTexts ==
    { <<"1", ".", "2", "3", "4", ",", "5">>,
      <<"1", ",", "2", "3", "4", ".", "5">>,
      <<"$", " ", "1", "5", ",", "5">>,
      <<"1", ".", "5", ".", "1">> }
AmountInputs ==
    {NoneV, NaNV}
    \cup {TextV(s) : s \in SeqsUpTo(AmountAlphabet, MaxLen) \cup AmountTexts}
    \cup {IntV(i) : i \in {0, 15}}
    \cup {FloatV(i, f) : i \in {15}, f \in {0, 5}}

CallParseAmountToFloat ==
    \E x \in AmountInputs :
        /\ fn = "none"
        /\ fn' = "parse_amount_to_float"
        /\ args' = <<x>>
        /\ ret' = parse_amount_to_float(x)
        /\ UNCHANGED aggVars

\* Metrics and modes handed to create_choropleth_map, one of each unknown.
MapMetricInputs == {"recursos_percibido", "tasa_ejecucion", "poblacion", "desconocida"}
NormalizationInputs == NORMALIZATIONS \cup {"otra"}
\* Rows of the aggregate table as dictionaries: none, with the projected
\* columns, and without them; a cell may be NaN or None.
MetricRowInputs ==
    { <<>> }
    \cup { ("recursos_percibido" :> a) @@ ("recursos_percibido_proy" :> b)
            @@ ("tasa_ejecucion" :> c) @@ ("tasa_ejecucion_proy" :> c) :
               a \in {Num(6), NaN}, b \in {Num(12), NaN}, c \in {Rat(3, 4), None} }
    \cup { ("recursos_percibido" :> a) @@ ("tasa_ejecucion" :> Rat(3, 4)) : a \in {Zero, Num(6)} }
\* Rows of the base table: none, and population and area zero, positive or
\* negative.
BaseRowInputs ==
    { <<>> }
    \cup { ("Muni_Poblacion_2022" :> p) @@ ("Muni_Superficie" :> a)
            @@ ("Muni_Cantidad_Trabajadores" :> Num(3)) :
               p \in {Zero, Num(2), Num(-2)}, a \in {Zero, Num(4)} }

\* One pass of the loop of create_choropleth_map, for one municipality.
CallCreateChoroplethMap ==
    \E metric \in MapMetricInputs, normalization \in NormalizationInputs,
       muni_metrics \in MetricRowInputs, base_data \in BaseRowInputs :
        /\ fn = "none"
        /\ fn' = "create_choropleth_map"
        /\ args' = <<metric, normalization, muni_metrics, base_data>>
        /\ ret' = display_value(metric, normalization, muni_metrics, base_data)
        /\ UNCHANGED aggVars

CallGetFactorProyeccion ==
    \E x \in PeriodInputs :
        /\ fn = "none"
        /\ fn' = "get_factor_proyeccion"
        /\ args' = <<x>>
        /\ ret' = get_factor_proyeccion(x)
        /\ UNCHANGED aggVars

\* Identifiers as the store may hold them: the same two entities as a number
\* and as a text.
IdInputs == {IntV(12), TextV(<<"1", "2">>), IntV(7), TextV(<<"7">>)}

\* One of the joins is made for the identifiers a (of the line item or of the
\* document's municipality) and b (of the document or of the registry).
CallJoin ==
    \E site \in JoinSites, a \in IdInputs, b \in IdInputs :
        /\ fn = "none"
        /\ fn' = site
        /\ args' = <<a, b>>
        /\ ret' \in join_at(site, a, b)
        /\ UNCHANGED aggVars

\* The municipalities 06007 and 06014 in the three native representations
\* of the sources: a number, a zero-padded text, a float-suffixed text or float.
NativeGeorefs ==
    {IntV(6007), TextV(<<"0", "6", "0", "0", "7">>), TextV(<<"6", "0", "0", "7", ".", "0">>),
     FloatV(6007, 0),
     IntV(6014), TextV(<<"0", "6", "0", "1", "4">>), TextV(<<"6", "0", "1", "4", ".", "0">>),
     IntV(2007), NoneV}

\* A source reads a raw geographic identifier.
CallGeorefKey ==
    \E source \in GeorefSources, x \in NativeGeorefs :
        /\ fn = "none"
        /\ fn' = source
        /\ args' = <<x>>
        /\ ret' = georef_key(source, x)
        /\ UNCHANGED aggVars

\* The map looks up the registry row of a boundary feature.
CallBaseLookupGet ==
    \E registro \in NativeGeorefs, limite \in NativeGeorefs :
        /\ fn = "none"
        /\ fn' = "base_lookup_get"
        /\ args' = <<registro, limite>>
        /\ ret' = base_lookup_get(registro, limite)
        /\ UNCHANGED aggVars

CallNormGeoref ==
    \E x \in GeorefInputs :
        /\ fn = "none"
        /\ fn' = "norm_georef"
        /\ args' = <<x>>
        /\ ret' = norm_georef(x)
        /\ UNCHANGED aggVars

CallCalcTasaEjecucion ==
    \E a \in Operands, b \in Operands :
        /\ fn = "none"
        /\ fn' = "calc_tasa_ejecucion"
        /\ args' = <<a, b>>
        /\ ret' = calc_tasa_ejecucion(a, b)
        /\ UNCHANGED aggVars

CallCalcTasaCobro ==
    \E a \in Operands, b \in Operands :
        /\ fn = "none"
        /\ fn' = "calc_tasa_cobro"
        /\ args' = <<a, b>>
        /\ ret' = calc_tasa_cobro(a, b)
        /\ UNCHANGED aggVars

CallCalcTasaPago ==
    \E a \in Operands, b \in Operands :
        /\ fn = "none"
        /\ fn' = "calc_tasa_pago"
        /\ args' = <<a, b>>
        /\ ret' = calc_tasa_pago(a, b)
        /\ UNCHANGED aggVars

CallCalcBalanceFiscal ==
    \E a \in Operands, b \in Operands :
        /\ fn = "none"
        /\ fn' = "calc_balance_fiscal"
        /\ args' = <<a, b>>
        /\ ret' = calc_balance_fiscal(a, b)
        /\ UNCHANGED aggVars

CallCalcRatioActivoPasivo ==
    \E a \in Operands, b \in Operands :
        /\ fn = "none"
        /\ fn' = "calc_ratio_activo_pasivo"
        /\ args' = <<a, b>>
        /\ ret' = calc_ratio_activo_pasivo(a, b)
        /\ UNCHANGED aggVars

CallCalcPerCapita ==
    \E a \in Operands, b \in Operands :
        /\ fn = "none"
        /\ fn' = "calc_per_capita"
        /\ args' = <<a, b>>
        /\ ret' = calc_per_capita(a, b)
        /\ UNCHANGED aggVars

CallGetSemaforoEjecucion ==
    \E x \in ClassifierInputs :
        /\ fn = "none"
        /\ fn' = "get_semaforo_ejecucion"
        /\ args' = <<x>>
        /\ ret' = get_semaforo_ejecucion(x)
        /\ UNCHANGED aggVars

CallGetSemaforoBalance ==
    \E x \in ClassifierInputs :
        /\ fn = "none"
        /\ fn' = "get_semaforo_balance"
        /\ args' = <<x>>
        /\ ret' = get_semaforo_balance(x)
        /\ UNCHANGED aggVars

CallGetSemaforoRatio ==
    \E x \in ClassifierInputs :
        /\ fn = "none"
        /\ fn' = "get_semaforo_ratio"
        /\ args' = <<x>>
        /\ ret' = get_semaforo_ratio(x)
        /\ UNCHANGED aggVars

InitCalc ==
    /\ fn = "none"
    /\ args = <<>>
    /\ ret = None

\* The widgets of a new session: each shows its default.
InitWidgets ==
    [municipio |-> VistaProvincial, index |-> "not drawn",
     metric |-> "recursos_percibido", metric_index |-> "not drawn",
     normalization |-> "absoluto", normalization_index |-> "not drawn",
     volver |-> FALSE]

\* A new session before the first line of the script: no key is set and the
\* first run is due.
InitUi ==
    /\ session_state = <<>>
    /\ widgets = InitWidgets
    /\ pending = TRUE
    /\ reruns = 0

InitAgg ==
    /\ docs = {}
    /\ recs = EmptyBag
    /\ gass = EmptyBag
    /\ pc = "load"
    /\ df_metrics = None
    /\ err_metrics = None
    /\ contacted = FALSE
    /\ cache = <<>>
    /\ now = 0
    /\ queried = FALSE
    /\ InitUi

\* Both secrets are configured and the store answers.
InitEnv ==
    /\ SUPABASE_URL = "https://pba.supabase.co"
    /\ SUPABASE_KEY = "key"
    /\ store_up = TRUE

Init == InitCalc /\ InitAgg /\ InitEnv

\* Every configuration: each secret configured or missing, the store
\* answering or failing.
InitFetch ==
    /\ InitCalc
    /\ InitAgg
    /\ SUPABASE_URL \in {"", "https://pba.supabase.co"}
    /\ SUPABASE_KEY \in {"", "key"}
    /\ store_up \in BOOLEAN

\* The helper returns to its caller: nothing of it stays behind.
Return ==
    /\ fn # "none"
    /\ fn' = "none"
    /\ args' = <<>>
    /\ ret' = None
    /\ UNCHANGED aggVars

NextCalc ==
    \/ CallGeorefKey
    \/ CallBaseLookupGet
    \/ CallJoin
    \/ CallCreateChoroplethMap
    \/ CallParseAmountToFloat
    \/ CallGetFactorProyeccion
    \/ CallNormGeoref
    \/ CallCalcTasaEjecucion
    \/ CallCalcTasaCobro
    \/ CallCalcTasaPago
    \/ CallCalcBalanceFiscal
    \/ CallCalcRatioActivoPasivo
    \/ CallCalcPerCapita
    \/ CallGetSemaforoEjecucion
    \/ CallGetSemaforoBalance
    \/ CallGetSemaforoRatio
    \/ Return

\* The pure helpers, each called on every input of its bounded set.
SpecCalc == Init /\ [][NextCalc]_vars

\* The store is filled, then the aggregate table is fetched.
SpecAgg == Init /\ [][NextAgg]_vars

\* The store is filled, the aggregate table is fetched, then a view is drawn.
SpecView == Init /\ [][NextView]_vars

\* The store of the cache runs: a document each of "A" and "B" with an
\* expenditure line each.
DocsCache ==
    {[ID_DocumentoCargado |-> 1, ID_Municipio |-> "A", Doc_Periodo |-> TextV(<<"Q", "1">>)],
     [ID_DocumentoCargado |-> 2, ID_Municipio |-> "B", Doc_Periodo |-> TextV(<<"q", "3">>)]}
GastosCache ==
    SetToBag({[ID_DocumentoCargado |-> 1, Gasto_Vigente |-> Num(400),
               Gasto_Devengado |-> Num(300), Gasto_Pagado |-> Num(200)],
              [ID_DocumentoCargado |-> 2, Gasto_Vigente |-> Num(0),
               Gasto_Devengado |-> Num(0), Gasto_Pagado |-> Num(0)]})

InitCache ==
    /\ InitCalc
    /\ InitEnv
    /\ docs = DocsCache
    /\ recs = EmptyBag
    /\ gass = GastosCache
    /\ pc = "load"
    /\ df_metrics = None
    /\ err_metrics = None
    /\ contacted = FALSE
    /\ cache = <<>>
    /\ now = 0
    /\ queried = FALSE
    /\ InitUi

NextCache ==
    \/ FetchGastos
    \/ FetchMunicipiosBase
    \/ Tick
    \/ StoreToggles

\* The per-document and the registry fetch are called again and again while
\* time passes and the store fails and recovers.
SpecCache == InitCache /\ [][NextCache]_vars

\* The session states the three functions are tried from: the empty one of
\* a new session, and those the sidebar and the filters of the views leave.
SessionStates ==
    {<<>>} \cup
    { update(DEFAULT_STATE,
             [key \in {"map_metric", "map_normalization", "filter_jurisdiccion",
                       "filter_programa"} |->
                 CASE key = "map_metric" -> TextV(<<m>>)
                   [] key = "map_normalization" -> TextV(<<n>>)
                   [] key = "filter_jurisdiccion" -> j
                   [] key = "filter_programa" -> p]) :
        m \in {"recursos_percibido", "gastos_pagado"},
        n \in {"absoluto", "proyectado"},
        j \in {NoneV, TextV(<<"Intendencia">>), TextV(<<"Salud">>)},
        p \in {NoneV, TextV(<<"Obras">>)} }

InitSession ==
    /\ InitCalc
    /\ InitEnv
    /\ docs = {}
    /\ recs = EmptyBag
    /\ gass = EmptyBag
    /\ pc = "load"
    /\ df_metrics = None
    /\ err_metrics = None
    /\ contacted = FALSE
    /\ cache = <<>>
    /\ now = 0
    /\ queried = FALSE
    /\ session_state \in SessionStates
    /\ widgets = InitWidgets
    /\ pending = TRUE
    /\ reruns = 0

\* init_session_state, select_municipio and reset_to_provincial called in
\* any order.
SpecSession == InitSession /\ [][NextSession]_vars

InitSidebar ==
    /\ InitCalc
    /\ InitEnv
    /\ InitAgg

\* The script runs whenever a run is due: after a user input and after
\* st.rerun().  The user acts only on a page that has finished drawing.
SpecSidebar == InitSidebar /\ [][NextSidebar]_vars /\ WF_vars(RenderSidebarControls)

NextFetch ==
    \/ LoadDocumento
    \/ FetchMunicipiosBase
    \/ FetchDocumentosCount
    \/ FetchMetricas

\* The fetch functions of main(), under every configuration of the secrets
\* and of the store.
SpecFetch == InitFetch /\ [][NextFetch]_vars

(***************************************************************************)
(* Claims about the pure helpers, checked under SpecCalc.                  *)
(***************************************************************************)

\* What section 4.2 documents: the factor of each period, and the synonyms of
\* quarter k built from their parts ("Qk", "kQ", "k", the Spanish ordinals).
DocumentedFactor ==
    [k \in 1..5 |-> CASE k = 1 -> Rat(4, 1) [] k = 2 -> Rat(2, 1) [] k = 3 -> Rat(3, 2)
                      [] k = 4 -> Rat(1, 1) [] k = 5 -> Rat(1, 1)]
Trimestre == <<" ", "t", "r", "i", "m", "e", "s", "t", "r", "e">>
OrdinalSuffix == << <<"e", "r">>, <<"d", "o">>, <<"e", "r">>, <<"t", "o">> >>
OrdinalWord ==
    << <<"p", "r", "i", "m", "e", "r">>, <<"s", "e", "g", "u", "n", "d", "o">>,
       <<"t", "e", "r", "c", "e", "r">>, <<"c", "u", "a", "r", "t", "o">> >>
DocumentedSynonyms(k) ==
    IF k = 5 THEN { <<"a", "n", "u", "a", "l">> }
    ELSE LET dgt == Digits[k + 1]
         IN { <<"q", dgt>>, <<dgt, "q">>, <<dgt>>,
              <<dgt>> \o OrdinalSuffix[k] \o Trimestre,
              OrdinalWord[k] \o Trimestre }
DocumentedPeriod(x, k) == x.t # "None" /\ lower(strip(str(x))) \in DocumentedSynonyms(k)

\* C4: get_factor_proyeccion never raises; a label that after trimming and
\* case-folding is a documented synonym of a quarter or of the annual period
\* gets the documented factor (4, 2, 1.5, 1, 1), and every other input, a
\* missing label included, gets 1.0.
C4_FactorTotal ==
    fn = "get_factor_proyeccion" =>
        LET x == args[1]
        IN /\ IsNum(ret)
           /\ \A k \in 1..5 : DocumentedPeriod(x, k) => ret = DocumentedFactor[k]
           /\ (\A k \in 1..5 : ~DocumentedPeriod(x, k)) => ret = Rat(1, 1)

\* A label that needs both the trimming and the case-folding: " q3 " -> 1.5.
C4_Witness ==
    /\ fn = "get_factor_proyeccion"
    /\ args[1] = TextV(<<" ", "q", "3", " ">>)
    /\ ret = Rat(3, 2)

\* C5: norm_georef is idempotent, norm_georef(norm_georef(x)) = norm_georef(x),
\* for every input x (text, number or missing).
C5_Idempotent ==
    fn = "norm_georef" => norm_georef(TextV(ret)) = ret

\* C6: for every input norm_georef returns exactly 5 characters, all of them
\* decimal digits.
C6_FiveDigits ==
    fn = "norm_georef" =>
        /\ Len(ret) = 5
        /\ \A i \in 1..Len(ret) : ret[i] \in DigitChars

\* C7: each ratio calculator returns the undefined result None exactly when its
\* denominator is <= 0 or missing, and numerator / denominator otherwise
\* (numerator a number).
C7_UndefinedIffNotPositive ==
    (fn \in RatioCalculators /\ IsNum(args[1])) =>
        LET num == args[1]
            den == args[2]
        IN IF den = None \/ ~RGt(den, Zero)
           THEN ret = None
           ELSE ret = RDiv(num, den)

\* C8: calc_balance_fiscal is defined for every pair of operands and equals
\* collected minus paid with a missing operand counted as 0.
C8_BalanceDefined ==
    fn = "calc_balance_fiscal" =>
        LET collected == IF args[1] = None THEN Zero ELSE args[1]
            paid == IF args[2] = None THEN Zero ELSE args[2]
        IN /\ IsNum(ret)
           /\ RAdd(ret, paid) = collected

\* balance(None, 5) = -5 has been computed.
C8_Witness ==
    /\ fn = "calc_balance_fiscal"
    /\ args = <<None, Num(5)>>
    /\ ret = Num(-5)

\* C9: the traffic lights map every rate to its band: execution rate None ->
\* "Sin datos", >= 0.8 -> "Optima", >= 0.5 -> "Media", else "Baja"; balance > 0
\* -> "Superavit", = 0 -> "Equilibrado", < 0 -> "Deficit"; asset/liability ratio
\* None -> "Sin datos", >= 1.5 -> "Saludable", >= 1.0 -> "Ajustado", else
\* "Critico"; the thresholds themselves fall in the upper band.
C9_TrafficLights ==
    LET x == args[1]
    IN /\ (fn = "get_semaforo_ejecucion" /\ x = None) => ret = "Sin datos"
       /\ (fn = "get_semaforo_ejecucion" /\ IsNum(x)) =>
              ret = (IF 10 * x.n >= 8 * x.d THEN "Optima"
                     ELSE IF 10 * x.n >= 5 * x.d THEN "Media" ELSE "Baja")
       /\ (fn = "get_semaforo_balance" /\ IsNum(x)) =>
              ret = (IF x.n > 0 THEN "Superavit"
                     ELSE IF x.n = 0 THEN "Equilibrado" ELSE "Deficit")
       /\ (fn = "get_semaforo_ratio" /\ x = None) => ret = "Sin datos"
       /\ (fn = "get_semaforo_ratio" /\ IsNum(x)) =>
              ret = (IF 10 * x.n >= 15 * x.d THEN "Saludable"
                     ELSE IF x.n >= x.d THEN "Ajustado" ELSE "Critico")

\* The threshold 0.8 itself has been classified, in the upper band.
C9_Witness ==
    /\ fn = "get_semaforo_ejecucion"
    /\ args[1] = Rat(8, 10)
    /\ ret = "Optima"

(***************************************************************************)
(* Claims about the aggregate table, checked under SpecAgg.  The sums a    *)
(* claim speaks of are taken here from the store itself: the lines of the  *)
(* documents a municipality owns.                                          *)
(***************************************************************************)
OwnedBy(mid, line) ==
    \E d \in docs : /\ d.ID_DocumentoCargado = line.ID_DocumentoCargado
                    /\ d.ID_Municipio = mid
RecLinesOf(mid) == {r \in Rows(recs) : OwnedBy(mid, r.line)}
GasLinesOf(mid) == {r \in Rows(gass) : OwnedBy(mid, r.line)}
\* The category name of a line after trimming and lower-casing; a missing
\* name is the name of no category.
Trimmed(nombre) == IF nombre.t = "str" THEN lower(strip(nombre.s)) ELSE <<>>
IsPrincipal(r) == Trimmed(r.line.Rec_Nombre) \in categorias_principales
IsExtra(r) == Trimmed(r.line.Rec_Nombre) \in categorias_extra
PrincipalOf(mid) == {r \in RecLinesOf(mid) : IsPrincipal(r)}
ExtraOf(mid) == {r \in RecLinesOf(mid) : IsExtra(r)}
Amount(v) == IF IsNum(v) THEN v ELSE Zero
SumField(S, field) == SumF([r \in S |-> Amount(r.line[field])], S)

Fetched == pc = "done"
HasCell(mid, c) == mid \in DOMAIN df_metrics.rows /\ c \in df_metrics.columns
Cell(mid, c) == df_metrics.rows[mid][c]
\* No value: the column does not exist, or the cell is NaN or None.
Undefined(mid, c) == ~HasCell(mid, c) \/ Cell(mid, c) \in {NaN, None}

RevenueFields ==
    { <<"recursos_vigente", "Rec_Vigente">>, <<"recursos_devengado", "Rec_Devengado">>,
      <<"recursos_percibido", "Rec_Percibido">> }

\* 2 * cell = P + 2 * E, that is cell = P/2 + E.
IsHalfPlusExtra(mid, f) ==
    /\ HasCell(mid, f[1])
    /\ IsNum(Cell(mid, f[1]))
    /\ RAdd(Cell(mid, f[1]), Cell(mid, f[1]))
         = RAdd(SumField(PrincipalOf(mid), f[2]),
                RAdd(SumField(ExtraOf(mid), f[2]), SumField(ExtraOf(mid), f[2])))

\* C1 as stated: for every municipality in the result, recursos_vigente,
\* recursos_devengado and recursos_percibido each equal P/2 + E, P the sum over
\* its Principal lines and E the sum over its Extra-budgetary lines.
C1_FormulaEveryRow ==
    Fetched => \A mid \in DOMAIN df_metrics.rows :
                   \A f \in RevenueFields : IsHalfPlusExtra(mid, f)

\* C1 amended: the formula holds for every municipality of the result that has
\* at least one Principal or Extra-budgetary line, also with lines of only one
\* of the two kinds; a municipality that is in the result through its
\* expenditure lines alone has no value in the three columns.
C1_FormulaRevenueRows ==
    Fetched => \A mid \in DOMAIN df_metrics.rows :
                   \A f \in RevenueFields :
                       IF PrincipalOf(mid) \cup ExtraOf(mid) # {}
                       THEN IsHalfPlusExtra(mid, f)
                       ELSE Undefined(mid, f[1])

\* A municipality with Principal lines only, collected 600 + 600, shows 600.
C1_Witness ==
    /\ Fetched
    /\ \E mid \in DOMAIN df_metrics.rows :
           /\ ExtraOf(mid) = {}
           /\ SumField(PrincipalOf(mid), "Rec_Percibido") = Num(1200)
           /\ Cell(mid, "recursos_percibido") = Num(600)

\* The store of the end-to-end scenario: two documents of "A", the first of
\* period "Q1" with one Principal line (1000, 800, 600), the second of another
\* period with one expenditure line (400, 300, 200).
Scenario ==
    \E d1 \in docs, d2 \in docs :
        /\ docs = {d1, d2}
        /\ d1.ID_Municipio = "A" /\ d2.ID_Municipio = "A"
        /\ d1.Doc_Periodo = TextV(<<"Q", "1">>)
        /\ d2.Doc_Periodo # d1.Doc_Periodo
        /\ \E r \in Recursos :
               /\ recs = SetToBag({r})
               /\ r.ID_DocumentoCargado = d1.ID_DocumentoCargado
               /\ Trimmed(r.Rec_Nombre) \in categorias_principales
               /\ <<r.Rec_Vigente, r.Rec_Devengado, r.Rec_Percibido>>
                    = <<Num(1000), Num(800), Num(600)>>
        /\ \E g \in Gastos :
               /\ gass = SetToBag({g})
               /\ g.ID_DocumentoCargado = d2.ID_DocumentoCargado
               /\ <<g.Gasto_Vigente, g.Gasto_Devengado, g.Gasto_Pagado>>
                    = <<Num(400), Num(300), Num(200)>>

ScenarioRow ==
    /\ HasCell("A", "recursos_percibido") /\ Cell("A", "recursos_percibido") = Num(300)
    /\ HasCell("A", "recursos_percibido_proy")
    /\ Cell("A", "recursos_percibido_proy") = Num(1200)
    /\ HasCell("A", "tasa_ejecucion") /\ Cell("A", "tasa_ejecucion") = Rat(3, 4)
    /\ get_semaforo_ejecucion(Cell("A", "tasa_ejecucion")) = "Media"

\* C2: in the end-to-end scenario the row of "A" has collected revenue 300,
\* projected collected revenue 1200, execution rate 300/400 = 0.75, and that
\* rate is classified "Media".
C2_EndToEnd == (Fetched /\ Scenario) => ScenarioRow

\* The scenario has been fetched.
C2_Witness == Fetched /\ Scenario /\ ScenarioRow

AllZero(mid) ==
    /\ \A r \in RecLinesOf(mid) :
           \A c \in {"Rec_Vigente", "Rec_Devengado", "Rec_Percibido"} : Amount(r.line[c]) = Zero
    /\ \A r \in GasLinesOf(mid) :
           \A c \in {"Gasto_Vigente", "Gasto_Devengado", "Gasto_Pagado"} : Amount(r.line[c]) = Zero
ZeroIn(mid, cols) == \A c \in cols : HasCell(mid, c) /\ Cell(mid, c) = Zero
UndefinedIn(mid, cols) == \A c \in cols : Undefined(mid, c)

\* C3 as stated: a municipality without any revenue or expenditure line has no
\* row; a municipality that has lines, all of amount zero, has a row whose
\* summed columns are all 0.
C3_AbsentVsZero ==
    Fetched => \A mid \in Municipios :
        /\ (RecLinesOf(mid) \cup GasLinesOf(mid) = {}) => mid \notin DOMAIN df_metrics.rows
        /\ (RecLinesOf(mid) \cup GasLinesOf(mid) # {} /\ AllZero(mid)) =>
               /\ mid \in DOMAIN df_metrics.rows
               /\ ZeroIn(mid, RecursosCols \cup GastosCols)

\* C3 amended: a municipality without any line has no row, and neither has one
\* whose only lines are revenue lines of an unclassified category; a
\* municipality with an expenditure line or a Principal or Extra-budgetary
\* line, all its amounts zero, has a row in which the summed columns of each
\* side it has such lines for are 0 and those of the other side have no value.
C3_AbsentVsZeroAmended ==
    Fetched => \A mid \in Municipios :
        LET rev == PrincipalOf(mid) \cup ExtraOf(mid)
            exp == GasLinesOf(mid)
        IN /\ (rev \cup exp = {}) <=> mid \notin DOMAIN df_metrics.rows
           /\ (rev \cup exp # {} /\ AllZero(mid)) =>
                  /\ IF rev # {} THEN ZeroIn(mid, RecursosCols)
                                 ELSE UndefinedIn(mid, RecursosCols)
                  /\ IF exp # {} THEN ZeroIn(mid, GastosCols)
                                 ELSE UndefinedIn(mid, GastosCols)

\* "A" has only zero lines and a row of zeros; "B" owns a document without
\* lines and has no row.
C3_Witness ==
    /\ Fetched
    /\ PrincipalOf("A") # {} /\ GasLinesOf("A") # {} /\ AllZero("A")
    /\ ZeroIn("A", RecursosCols \cup GastosCols)
    /\ \E d \in docs : d.ID_Municipio = "B"
    /\ RecLinesOf("B") \cup GasLinesOf("B") = {}
    /\ "B" \notin DOMAIN df_metrics.rows

\* C10: a municipality's execution rate is its summed accrued expenditure
\* divided by its summed budgeted expenditure when the budgeted sum is > 0, and
\* has no value otherwise (budgeted sum zero or negative, or no expenditure
\* line of that municipality).
C10_ExecutionRate ==
    Fetched => \A mid \in DOMAIN df_metrics.rows :
        LET vigente == SumField(GasLinesOf(mid), "Gasto_Vigente")
            devengado == SumField(GasLinesOf(mid), "Gasto_Devengado")
        IN IF GasLinesOf(mid) # {} /\ RGt(vigente, Zero)
           THEN /\ HasCell(mid, "tasa_ejecucion")
                /\ IsNum(Cell(mid, "tasa_ejecucion"))
                /\ RMul(Cell(mid, "tasa_ejecucion"), vigente) = devengado
           ELSE Undefined(mid, "tasa_ejecucion")

\* One municipality has the rate 300/400, another a negative budget and no rate.
C10_Witness ==
    /\ Fetched
    /\ \E a \in DOMAIN df_metrics.rows, b \in DOMAIN df_metrics.rows :
           /\ HasCell(a, "tasa_ejecucion") /\ Cell(a, "tasa_ejecucion") = Rat(3, 4)
           /\ RLt(SumField(GasLinesOf(b), "Gasto_Vigente"), Zero)
           /\ Undefined(b, "tasa_ejecucion")

\* The aggregated collected revenue and the summed paid expenditure of a row,
\* a side the municipality has no lines for counted as 0.
SideOrZero(mid, c) == IF Undefined(mid, c) THEN Zero ELSE Cell(mid, c)
IsBalance(mid, name, collected, paid) ==
    /\ HasCell(mid, name)
    /\ IsNum(Cell(mid, name))
    /\ Cell(mid, name) = RSub(SideOrZero(mid, collected), SideOrZero(mid, paid))

\* C11: every row of the aggregate table carries a fiscal balance equal to the
\* municipality's aggregated collected revenue minus its summed paid
\* expenditure, and a projected balance equal to projected collected revenue
\* minus projected paid expenditure, a side without lines counted as 0, also
\* when no expenditure line or no revenue line exists at all.
C11_BalanceEveryRow ==
    Fetched => \A mid \in DOMAIN df_metrics.rows :
        /\ IsBalance(mid, "balance_fiscal", "recursos_percibido", "gastos_pagado")
        /\ IsBalance(mid, "balance_fiscal_proy", "recursos_percibido_proy", "gastos_pagado_proy")

\* The balance is there whenever both tables gave the result a row.
C11_BalanceWhenBothSides ==
    (Fetched /\ {"recursos_percibido", "gastos_pagado"} \subseteq df_metrics.columns) =>
        \A mid \in DOMAIN df_metrics.rows :
            /\ IsBalance(mid, "balance_fiscal", "recursos_percibido", "gastos_pagado")
            /\ IsBalance(mid, "balance_fiscal_proy", "recursos_percibido_proy", "gastos_pagado_proy")

\* The documented projection factor of the period of the document a line
\* belongs to (section 4.2); 1 for a period that is no documented synonym.
DocOf(line) == CHOOSE d \in docs : d.ID_DocumentoCargado = line.ID_DocumentoCargado
LineFactor(line) ==
    LET x == DocOf(line).Doc_Periodo
    IN IF \E k \in 1..5 : DocumentedPeriod(x, k)
       THEN DocumentedFactor[CHOOSE k \in 1..5 : DocumentedPeriod(x, k)]
       ELSE Rat(1, 1)
\* The sum over the lines S of amount times the line's own factor.
SumProjected(S, field) ==
    SumF([r \in S |-> RMul(Amount(r.line[field]), LineFactor(r.line))], S)

ProjectedRevenueFields ==
    { <<"recursos_devengado_proy", "Rec_Devengado">>,
      <<"recursos_percibido_proy", "Rec_Percibido">> }
ProjectedExpenditureFields ==
    { <<"gastos_devengado_proy", "Gasto_Devengado">>,
      <<"gastos_pagado_proy", "Gasto_Pagado">> }

\* C12: the projected accrued and collected/paid totals of a municipality are
\* formed from per-line products, each line's raw amount times the projection
\* factor of the period of the line's own document (revenue: Principal
\* products halved plus Extra-budgetary products; expenditure: plain sum), and
\* budgeted amounts are never projected: the budgeted totals are the raw ones
\* and the table has no projected budgeted column.
C12_PerLineProjection ==
    Fetched => \A mid \in DOMAIN df_metrics.rows :
        /\ (PrincipalOf(mid) \cup ExtraOf(mid) # {}) =>
               /\ \A f \in ProjectedRevenueFields :
                      /\ HasCell(mid, f[1]) /\ IsNum(Cell(mid, f[1]))
                      /\ RAdd(Cell(mid, f[1]), Cell(mid, f[1]))
                           = RAdd(SumProjected(PrincipalOf(mid), f[2]),
                                  RAdd(SumProjected(ExtraOf(mid), f[2]),
                                       SumProjected(ExtraOf(mid), f[2])))
               /\ IsHalfPlusExtra(mid, <<"recursos_vigente", "Rec_Vigente">>)
        /\ (GasLinesOf(mid) # {}) =>
               /\ \A f \in ProjectedExpenditureFields :
                      /\ HasCell(mid, f[1])
                      /\ Cell(mid, f[1]) = SumProjected(GasLinesOf(mid), f[2])
               /\ Cell(mid, "gastos_vigente") = SumField(GasLinesOf(mid), "Gasto_Vigente")
        /\ {"recursos_vigente_proy", "gastos_vigente_proy"} \cap df_metrics.columns = {}

\* A municipality with two expenditure lines (paid 200 each) in documents of
\* the periods "Q1" (factor 4) and "q3" (factor 1.5): 200*4 + 200*1.5 = 1100.
C12_Witness ==
    /\ Fetched
    /\ \E mid \in DOMAIN df_metrics.rows :
           /\ \E r1 \in GasLinesOf(mid), r2 \in GasLinesOf(mid) :
                  /\ LineFactor(r1.line) = Rat(4, 1)
                  /\ LineFactor(r2.line) = Rat(3, 2)
           /\ SumField(GasLinesOf(mid), "Gasto_Pagado") = Num(400)
           /\ Cell(mid, "gastos_pagado_proy") = Num(1100)

\* The revenue lines of the store whose category is in one of the two sets.
ClassifiedLines(R) ==
    LET S == {e \in BagToSet(R) : Trimmed(e.Rec_Nombre) \in categorias_principales \cup categorias_extra}
    IN [e \in S |-> CopiesIn(e, R)]
UnclassifiedOf(mid) == RecLinesOf(mid) \ (PrincipalOf(mid) \cup ExtraOf(mid))

\* C13: a revenue line contributes to a municipality's revenue totals if and
\* only if its category name, trimmed and lower-cased, is in the Principal set
\* (halved) or in the Extra-budgetary set (in full); the two sets are disjoint;
\* a line of any other category, or without a category name, changes no total:
\* the table is the one the store without those lines gives.
C13_CategoryMembership ==
    /\ categorias_principales \cap categorias_extra = {}
    /\ Fetched =>
           /\ \A mid \in Municipios :
                  IF PrincipalOf(mid) \cup ExtraOf(mid) # {}
                  THEN \A f \in RevenueFields : IsHalfPlusExtra(mid, f)
                  ELSE UndefinedIn(mid, RecursosCols)
           /\ df_metrics = fetch_metricas_por_municipio(docs, ClassifiedLines(recs), gass)

\* A municipality with a Principal line stored as "Ingresos Corrientes "
\* (collected 600) and a line of another or of no category (collected 600):
\* its collected revenue is 600 / 2 = 300.
C13_Witness ==
    /\ Fetched
    /\ \E mid \in DOMAIN df_metrics.rows :
           /\ \E r \in PrincipalOf(mid) : r.line.Rec_Nombre.s # lower(strip(r.line.Rec_Nombre.s))
           /\ \E r \in UnclassifiedOf(mid) : r.line.Rec_Nombre = NoneV
           /\ SumField(RecLinesOf(mid), "Rec_Percibido") = Num(1200)
           /\ Cell(mid, "recursos_percibido") = Num(300)

ExpenditureFields ==
    { <<"gastos_vigente", "Gasto_Vigente">>, <<"gastos_devengado", "Gasto_Devengado">>,
      <<"gastos_pagado", "Gasto_Pagado">> }

\* C14: for every municipality with expenditure lines, gastos_vigente,
\* gastos_devengado and gastos_pagado are the plain, unhalved sums of the
\* budgeted, accrued and paid amounts over all expenditure lines of all its
\* documents; the projected accrued and paid sums take each line times the
\* factor of its period, and budgeted has no projected variant.
C14_ExpenditureSums ==
    Fetched =>
        /\ \A mid \in Municipios :
               GasLinesOf(mid) # {} =>
                   /\ \A f \in ExpenditureFields :
                          /\ HasCell(mid, f[1])
                          /\ Cell(mid, f[1]) = SumField(GasLinesOf(mid), f[2])
                   /\ \A f \in ProjectedExpenditureFields :
                          /\ HasCell(mid, f[1])
                          /\ Cell(mid, f[1]) = SumProjected(GasLinesOf(mid), f[2])
        /\ "gastos_vigente_proy" \notin df_metrics.columns

\* A municipality with one expenditure line (400, 300, 200) in each of its two
\* documents: budgeted 800, accrued 600, paid 400.
C14_Witness ==
    /\ Fetched
    /\ \E mid \in DOMAIN df_metrics.rows :
           /\ \E r1 \in GasLinesOf(mid), r2 \in GasLinesOf(mid) :
                  r1.line.ID_DocumentoCargado # r2.line.ID_DocumentoCargado
           /\ Cell(mid, "gastos_vigente") = Num(800)
           /\ Cell(mid, "gastos_devengado") = Num(600)
           /\ Cell(mid, "gastos_pagado") = Num(400)

\* A stored amount that is missing or no number.
Malformed(v) == ~IsNum(v)
RecAmountFields == {"Rec_Vigente", "Rec_Devengado", "Rec_Percibido"}
GasAmountFields == {"Gasto_Vigente", "Gasto_Devengado", "Gasto_Pagado"}
HasMalformedRec(mid) ==
    \E r \in PrincipalOf(mid) \cup ExtraOf(mid) : \E c \in RecAmountFields : Malformed(r.line[c])
HasMalformedGas(mid) ==
    \E r \in GasLinesOf(mid) : \E c \in GasAmountFields : Malformed(r.line[c])

HasDigit(s) == \E i \in 1..Len(s) : isdigit(s[i])
\* parse_amount_to_float on every input of AmountInputs: always a number; 0 for
\* a missing value, for an empty or blank text and for a text without a
\* digit; "1.234,5" is 1234.5 and "1,5" is 1.5.
ParseAmountCoerces ==
    /\ \A x \in AmountInputs :
           LET r == parse_amount_to_float(x)
           IN /\ IsNum(r)
              /\ (x.t \in {"None", "nan"}) => r = Zero
              /\ (x.t = "str" /\ ~HasDigit(x.s)) => r = Zero
    /\ parse_amount_to_float(TextV(<<"1", ".", "2", "3", "4", ",", "5">>)) = Rat(12345, 10)
    /\ parse_amount_to_float(TextV(<<"1", ",", "5">>)) = Rat(3, 2)
    /\ parse_amount_to_float(TextV(<<"1", ".", "5", ".", "1">>)) = Zero

\* C15: a revenue or expenditure amount that is missing or not numeric counts
\* as 0 in every sum it enters: the municipality keeps its row, and its sums
\* are those of its other amounts; parse_amount_to_float returns 0.0 for
\* missing, empty or unparseable text and never raises.
C15_CoerceToZero ==
    /\ ParseAmountCoerces
    /\ Fetched => \A mid \in Municipios :
           /\ HasMalformedRec(mid) =>
                  /\ \A f \in RevenueFields : IsHalfPlusExtra(mid, f)
                  /\ \A c \in RecursosCols : HasCell(mid, c) /\ IsNum(Cell(mid, c))
           /\ HasMalformedGas(mid) =>
                  /\ \A f \in ExpenditureFields :
                         /\ HasCell(mid, f[1])
                         /\ Cell(mid, f[1]) = SumField(GasLinesOf(mid), f[2])
                  /\ \A c \in GastosCols : HasCell(mid, c) /\ IsNum(Cell(mid, c))

\* A municipality with two Principal lines, (missing, "1x", 600) and
\* (1000, 800, 600): budgeted 1000/2, accrued 800/2, collected 1200/2.
C15_Witness ==
    /\ Fetched
    /\ \E mid \in DOMAIN df_metrics.rows :
           /\ HasMalformedRec(mid)
           /\ \E r \in PrincipalOf(mid) : r.line.Rec_Vigente = Num(1000)
           /\ Cell(mid, "recursos_vigente") = Num(500)
           /\ Cell(mid, "recursos_devengado") = Num(400)
           /\ Cell(mid, "recursos_percibido") = Num(600)

\* The lines of a table whose document is in the document table, and the
\* others, the join misses.
HasDocument(line) == \E d \in docs : d.ID_DocumentoCargado = line.ID_DocumentoCargado
JoinedLines(B) ==
    LET S == {e \in BagToSet(B) : HasDocument(e)}
    IN [e \in S |-> CopiesIn(e, B)]
JoinMisses(B) == {e \in BagToSet(B) : ~HasDocument(e)}

\* C16: a line item whose document identifier does not occur in the document
\* table is dropped: it creates no row of its own (every row is of a
\* municipality of the document table) and adds to no municipality's sums
\* (the table is the one the store without the line gives), and no error is
\* raised.
C16_JoinMissDropped ==
    Fetched =>
        /\ DOMAIN df_metrics.rows \subseteq {d.ID_Municipio : d \in docs}
        /\ df_metrics = fetch_metricas_por_municipio(docs, JoinedLines(recs), JoinedLines(gass))
        /\ err_metrics = None

\* An expenditure line (400, 300, 200) of a document that is not in the
\* document table next to one of a document of "A": "A" has paid 200 and is
\* the only row.
C16_Witness ==
    /\ Fetched
    /\ \E e \in JoinMisses(gass) : e.Gasto_Pagado = Num(200)
    /\ DOMAIN df_metrics.rows = {"A"}
    /\ HasCell("A", "gastos_pagado")
    /\ Cell("A", "gastos_pagado") = Num(200)

(***************************************************************************)
(* Claims about the map display value, checked under SpecCalc.             *)
(***************************************************************************)
\* The value a dictionary holds for a column, 0 when it holds none.
ValueOf(d, col) == IF col \in DOMAIN d /\ d[col] # None THEN d[col] ELSE Zero
\* The absolute and the projected column of the metric of a call.
AbsoluteColumn(metric) ==
    CASE metric = "poblacion" -> "Muni_Poblacion_2022"
      [] metric = "tasa_ejecucion" -> "tasa_ejecucion"
      [] OTHER -> "recursos_percibido"
ProjectedColumn(metric) ==
    CASE metric = "poblacion" -> "Muni_Poblacion_2022_proy"
      [] metric = "tasa_ejecucion" -> "tasa_ejecucion_proy"
      [] OTHER -> "recursos_percibido_proy"
\* The raw value: the metric's absolute column, of the base table for the
\* population and of the municipality's row for the others.
RawValue(metric, row, base) ==
    IF metric = "poblacion" THEN ValueOf(base, AbsoluteColumn(metric))
    ELSE ValueOf(row, AbsoluteColumn(metric))
\* quotient = value / divisor, divisor a number other than 0.
IsQuotient(quotient, value, divisor) ==
    IF IsNum(value) THEN IsNum(quotient) /\ RMul(quotient, divisor) = value
    ELSE quotient = NaN

\* C17: the display value of a municipality is raw / population in per_capita
\* mode when population > 0 and raw otherwise; raw / area in por_km2 mode when
\* area > 0 and raw otherwise; in proyectado mode the metric's projected
\* column when the municipality's row has one and the absolute column
\* otherwise; raw in absoluto mode.
C17_DisplayValue ==
    fn = "create_choropleth_map" =>
        LET metric == args[1]
            mode == args[2]
            row == args[3]
            base == args[4]
            raw == RawValue(metric, row, base)
            population == ValueOf(base, "Muni_Poblacion_2022")
            area == ValueOf(base, "Muni_Superficie")
        IN /\ mode = "per_capita" =>
                  IF RGt(population, Zero) THEN IsQuotient(ret, raw, population) ELSE ret = raw
           /\ mode = "por_km2" =>
                  IF RGt(area, Zero) THEN IsQuotient(ret, raw, area) ELSE ret = raw
           /\ mode = "proyectado" =>
                  IF ProjectedColumn(metric) \in DOMAIN row
                  THEN ret = ValueOf(row, ProjectedColumn(metric))
                  ELSE ret = raw
           /\ mode = "absoluto" => ret = raw

\* Collected revenue 6 of a municipality of 2 inhabitants is shown as 3 per
\* capita.
C17_Witness ==
    /\ fn = "create_choropleth_map"
    /\ args[1] = "recursos_percibido" /\ args[2] = "per_capita"
    /\ ValueOf(args[3], "recursos_percibido") = Num(6)
    /\ ValueOf(args[4], "Muni_Poblacion_2022") = Num(2)
    /\ ret = Num(3)

(***************************************************************************)
(* Claims about the fetch functions, checked under SpecFetch.              *)
(***************************************************************************)
\* The fetch functions called through fn, args, ret.
FetchNames == {"fetch_municipios_base", "fetch_documentos_count"}

\* Either connection secret is missing.
SecretMissing == SUPABASE_URL = "" \/ SUPABASE_KEY = ""

\* A returned pair: a table and either None or a message.
IsPair(x) == DOMAIN x = {"df", "err"}

\* e is a non-empty message.
IsMessage(e) == e.t = "msg" /\ e.m # ""

\* What the pair (df, err) of a fetch must be in the configuration at hand.
FetchOutcome(df, err) ==
    /\ SecretMissing => (df = EmptyDataFrame /\ IsMessage(err) /\ ~contacted)
    /\ (~SecretMissing /\ ~store_up) => (df = EmptyDataFrame /\ IsMessage(err))
    /\ (~SecretMissing /\ store_up) => err = None

\* C18: no fetch function raises: each returns a pair; with a secret
\* missing the pair is an empty table and a non-empty sentinel and the store
\* is never contacted; with the store failing it is an empty table and the
\* description of the error; and the aggregation over an empty document
\* table returns an empty table and no error.
C18_FetchNeverRaises ==
    /\ fn \in FetchNames => (IsPair(ret) /\ FetchOutcome(ret.df, ret.err))
    /\ Fetched =>
        /\ FetchOutcome(df_metrics, err_metrics)
        /\ (~SecretMissing /\ store_up /\ docs = {}) => df_metrics = EmptyDataFrame

\* Only the key is missing: the base table and the aggregate both came back
\* empty with the sentinel, and the store was not contacted.
C18_Witness ==
    /\ SUPABASE_URL # "" /\ SUPABASE_KEY = ""
    /\ docs # {}
    /\ fn = "fetch_municipios_base"
    /\ ret = [df |-> EmptyDataFrame, err |-> ErrMsg("SUPABASE DESACTIVADO")]
    /\ Fetched
    /\ df_metrics = EmptyDataFrame /\ err_metrics = ErrMsg("SUPABASE DESACTIVADO")
    /\ ~contacted

\* The store fails: the count of documents came back as an empty table and
\* the description of the exception.
C18_WitnessStoreFails ==
    /\ ~SecretMissing /\ ~store_up /\ contacted
    /\ docs # {}
    /\ fn = "fetch_documentos_count"
    /\ ret = [df |-> EmptyDataFrame, err |-> ErrMsg("repr(e)")]
    /\ Fetched /\ err_metrics = ErrMsg("repr(e)")

\* The store answers and holds no document: the aggregate is empty, the
\* count has its two columns and no row, the base table has its rows.
C18_WitnessEmptyStore ==
    /\ ~SecretMissing /\ store_up /\ docs = {}
    /\ Fetched /\ df_metrics = EmptyDataFrame /\ err_metrics = None
    /\ fn = "fetch_documentos_count"
    /\ ret.df.columns = {"ID_Municipio", "documentos_cargados"}
    /\ DOMAIN ret.df.rows = {}

(***************************************************************************)
(* Claim about the calculators and classifiers on missing operands,        *)
(* checked under SpecCalc.                                                 *)
(***************************************************************************)
\* The calculators, whose result is a number, None or an exception.
Calculators == RatioCalculators \cup {"calc_balance_fiscal"}

\* The classifiers, whose result is a label or the label of an exception.
Classifiers == {"get_semaforo_ejecucion", "get_semaforo_balance", "get_semaforo_ratio"}

\* Every operand of the call is a number or None.
PresentOrMissing == \A i \in DOMAIN args : args[i] = None \/ IsNum(args[i])

\* C19: for every combination of present and missing (None) operands the
\* calculators and the classifiers return a value and never raise; in
\* particular a missing numerator with a positive denominator and a missing
\* balance do not raise.
C19_NeverRaise ==
    /\ (fn \in Calculators /\ PresentOrMissing) => ~Raised(ret)
    /\ (fn \in Classifiers /\ PresentOrMissing) => ret # "raise TypeError"

\* The part of C19 the code meets: with every operand present no calculator
\* and no classifier raises, and calc_balance_fiscal, get_semaforo_ejecucion
\* and get_semaforo_ratio do not raise on a missing operand either.
C19_NeverRaiseOperandsPresent ==
    /\ (fn \in Calculators /\ \A i \in DOMAIN args : IsNum(args[i])) => ~Raised(ret)
    /\ (fn \in Classifiers /\ IsNum(args[1])) => ret # "raise TypeError"
    /\ (fn = "calc_balance_fiscal" /\ PresentOrMissing) => ~Raised(ret)
    /\ (fn \in {"get_semaforo_ejecucion", "get_semaforo_ratio"} /\ args[1] = None) =>
           ret = "Sin datos"

(***************************************************************************)
(* Claim about the rows of the aggregate table, checked under SpecAgg.     *)
(***************************************************************************)
\* The documents of a municipality, and the municipalities that have lines
\* the aggregation counts.
DocsOfMuni(mid) == {d \in docs : d.ID_Municipio = mid}
WithLines == {mid \in Municipios :
                 PrincipalOf(mid) \cup ExtraOf(mid) \cup GasLinesOf(mid) # {}}

\* C20: the aggregate table has at most one row per municipality identifier
\* (its rows are keyed by the identifiers of the municipalities with counted
\* lines, one each), and a municipality with revenue and expenditure lines,
\* in one document or in several, has its revenue columns and its expenditure
\* columns filled in that one row.
C20_OneRowPerMunicipio ==
    Fetched =>
        /\ DOMAIN df_metrics.rows = WithLines
        /\ Cardinality(DOMAIN df_metrics.rows) <= Cardinality({d.ID_Municipio : d \in docs})
        /\ \A mid \in Municipios :
               (PrincipalOf(mid) \cup ExtraOf(mid) # {} /\ GasLinesOf(mid) # {}) =>
                   \A c \in RecursosCols \cup GastosCols :
                       HasCell(mid, c) /\ IsNum(Cell(mid, c))

\* "A" has two documents, a Principal line (collected 600) in one and an
\* expenditure line (paid 200) in the other: the table has the one row "A"
\* with collected 300 and paid 200.
C20_Witness ==
    /\ Fetched
    /\ Cardinality(DocsOfMuni("A")) = 2
    /\ \E r \in PrincipalOf("A"), g \in GasLinesOf("A") :
           r.line.ID_DocumentoCargado # g.line.ID_DocumentoCargado
    /\ DOMAIN df_metrics.rows = {"A"}
    /\ Cell("A", "recursos_percibido") = Num(300)
    /\ Cell("A", "gastos_pagado") = Num(200)

(***************************************************************************)
(* Claims about the views, checked under SpecView.                         *)
(***************************************************************************)
\* The municipality view has been drawn for mid.
Rendered(mid) == pc = "view" /\ fn = "render_municipio_kpis" /\ args = <<mid>>

\* The execution rate of mid is undefined in the fetched table: the table has
\* a row of mid and no rate in it.
RateUndefined(mid) == mid \in DOMAIN df_metrics.rows /\ Undefined(mid, "tasa_ejecucion")

\* C21: a municipality present in the aggregate table with an undefined
\* execution rate is classified "Sin datos" by the execution-rate traffic
\* light of the municipality view, as a municipality absent from the table is.
C21_UndefinedRateSinDatos ==
    \A mid \in Municipios :
        (Rendered(mid) /\ (RateUndefined(mid) \/ mid \notin DOMAIN df_metrics.rows)) =>
            ret.estado_ejecucion = "Sin datos"

\* The part of C21 the code meets: the municipalities absent from the table,
\* and the present ones whose rate is None or has no column.
C21_AbsentOrNoneSinDatos ==
    \A mid \in Municipios :
        (Rendered(mid) /\ (mid \notin DOMAIN df_metrics.rows
                           \/ (RateUndefined(mid) /\ ~HasCell(mid, "tasa_ejecucion"))
                           \/ (HasCell(mid, "tasa_ejecucion")
                               /\ Cell(mid, "tasa_ejecucion") = None))) =>
            ret.estado_ejecucion = "Sin datos"

(***************************************************************************)
(* Claim about the joins on identifiers, checked under SpecCalc.           *)
(***************************************************************************)
\* Two identifiers denote the same entity: they are the same number or text
\* once written as text.
SameEntity(a, b) == str(a) = str(b)

\* C22: at every join on a municipality or document identifier both sides are
\* converted to the same representation first, so two identifiers of the same
\* entity match whatever their native types (number 12 and text "12").
C22_JoinsNormalized ==
    (fn \in JoinSites /\ SameEntity(args[1], args[2])) => ret = "match"

\* The part of C22 the code meets: the joins of the line items to the
\* documents, of the map and of the municipality view convert both sides;
\* every join but the charts' merge on a numeric registry matches identifiers
\* of the same entity and the same native type; no join matches identifiers
\* of different entities.
C22_ConvertingJoins ==
    /\ (fn \in {"doc_to_muni_lookup", "metrics_lookup", "row_metrics_filter"}
        /\ SameEntity(args[1], args[2])) => ret = "match"
    /\ (fn \in JoinSites /\ args[1] = args[2]
        /\ ~(fn = "df_chart_merge" /\ args[1].t = "int")) => ret = "match"
    /\ (fn \in JoinSites /\ ~SameEntity(args[1], args[2])) => ret # "match"

(***************************************************************************)
(* Claim about the geographic identifiers, checked under SpecCalc.         *)
(***************************************************************************)
\* The native representations of the municipality 06007.
Natives06007 ==
    {IntV(6007), TextV(<<"0", "6", "0", "0", "7">>), TextV(<<"6", "0", "0", "7", ".", "0">>)}
Key06007 == <<"0", "6", "0", "0", "7">>

\* C23: in every source that handles a geographic identifier (registry load,
\* boundary load, preprocessing scripts) the identifier passes through the
\* normalizer before it is a join or filter key, so the three native
\* representations of a municipality (6007, "06007", "6007.0") give the same
\* key, are kept by the filter on "06", and a registry identifier and a
\* boundary identifier of the same municipality are joined.
C23_GeorefNormalizedEverywhere ==
    /\ (fn \in GeorefSources /\ args[1] \in Natives06007) =>
           (ret.kept /\ ret.id_georef = Key06007)
    /\ (fn = "base_lookup_get" /\ args[1] \in Natives06007 /\ args[2] \in Natives06007) =>
           ret = "match"

\* The part of C23 the code meets: app.py's registry and boundary loads and
\* scripts/preprocess_geojson.py, and the join of the map.
C23_AppSourcesNormalized ==
    /\ (fn \in GeorefSources \ {"extract_georef_dbf"} /\ args[1] \in Natives06007) =>
           (ret.kept /\ ret.id_georef = Key06007)
    /\ (fn = "base_lookup_get" /\ args[1] \in Natives06007 /\ args[2] \in Natives06007) =>
           ret = "match"
    /\ (fn = "extract_georef_dbf" /\ args[1] \in Natives06007 /\ ~endswith(str(args[1]), <<".", "0">>)) =>
           (ret.kept /\ ret.id_georef = Key06007)

(***************************************************************************)
(* Claims about the cache of the fetch results, checked under SpecCache.   *)
(***************************************************************************)
\* A step that is a call of a cached fetch: the clock and the store stand.
CallStep ==
    /\ fn' \in {"fetch_gastos", "fetch_municipios_base"}
    /\ now' = now
    /\ store_up' = store_up

\* The expenditure lines of the document doc_id in the store.
LinesOfDoc(doc_id) == {e \in BagToSet(gass) : IntToStr(e.ID_DocumentoCargado) = doc_id}

\* The pair is what the store gives at this moment for the call name(a).
FromStore(name, a, pair) ==
    IF store_up
    THEN /\ pair.err = None
         /\ name = "fetch_gastos" => DOMAIN pair.df.rows = LinesOfDoc(a[1])
         /\ name = "fetch_municipios_base" => DOMAIN pair.df.rows = Municipios
    ELSE pair.df = EmptyDataFrame /\ IsMessage(pair.err)

\* The key <<name, a>> has a stored result, and its age.
HasEntry(name, a) == <<name, a>> \in DOMAIN cache
Age(name, a) == now - cache[<<name, a>>].stored_at

\* C24: fetch results are cached per function and per query parameters with
\* a time-to-live: a call with the same parameters within the TTL returns the
\* stored result without querying the store; a first call, and a call after
\* the TTL has expired, query the store and store what it gives; a call with
\* one document identifier never returns lines of another document; and the
\* registry's TTL is longer than the per-document TTL.
C24_CacheTTL ==
    [][CallStep =>
        /\ (HasEntry(fn', args') /\ Age(fn', args') < TTL[fn']) =>
               (ret' = cache[<<fn', args'>>].value /\ ~queried' /\ cache' = cache)
        /\ (~HasEntry(fn', args') \/ Age(fn', args') > TTL[fn']) =>
               /\ queried'
               /\ FromStore(fn', args', ret')
               /\ <<fn', args'>> \in DOMAIN cache'
               /\ cache'[<<fn', args'>>] = [value |-> ret', stored_at |-> now]
        /\ (fn' = "fetch_gastos" /\ ret'.err = None) =>
               DOMAIN ret'.df.rows \subseteq LinesOfDoc(args'[1])
        /\ TTL["fetch_municipios_base"] > TTL["fetch_gastos"]
    ]_vars

\* fetch_gastos("2") was answered from the cache 30 seconds after its result
\* was stored, while the result of fetch_gastos("1") is stored too and is
\* another table.
C24_Witness ==
    /\ fn = "fetch_gastos" /\ args = <<IntToStr(2)>> /\ ~queried
    /\ HasEntry("fetch_gastos", args) /\ Age("fetch_gastos", args) = TickStep
    /\ ret = cache[<<"fetch_gastos", args>>].value
    /\ ret.err = None /\ DOMAIN ret.df.rows = LinesOfDoc(IntToStr(2))
    /\ HasEntry("fetch_gastos", <<IntToStr(1)>>)
    /\ cache[<<"fetch_gastos", <<IntToStr(1)>>>>].value # ret

\* A call of fetch_gastos after its TTL has queried the store again, while
\* the registry stored at 0 is still in its TTL.
C24_WitnessExpired ==
    /\ fn = "fetch_gastos" /\ queried /\ now > TTL["fetch_gastos"]
    /\ Age("fetch_gastos", args) = 0
    /\ HasEntry("fetch_municipios_base", <<>>)
    /\ Age("fetch_municipios_base", <<>>) = now

\* The stored result of the call name(a) is a failure: an empty table and
\* the description of a store error.
FailureStored(name, a) ==
    /\ HasEntry(name, a)
    /\ cache[<<name, a>>].value.df = EmptyDataFrame
    /\ cache[<<name, a>>].value.err = ErrMsg("repr(e)")

\* C29: the (empty table, error description) pair of a failed fetch is cached
\* like a successful result: a later call with the same parameters within the
\* TTL returns that same pair without querying the store, whether the store
\* answers again or not, and the store is retried only by a call made once
\* the TTL has run out.
C29_FailureCached ==
    [][CallStep =>
        /\ (~HasEntry(fn', args') /\ ~store_up) =>
               /\ <<fn', args'>> \in DOMAIN cache'
               /\ cache'[<<fn', args'>>].value =
                      [df |-> EmptyDataFrame, err |-> ErrMsg("repr(e)")]
        /\ (FailureStored(fn', args') /\ Age(fn', args') < TTL[fn']) =>
               (ret' = cache[<<fn', args'>>].value /\ ~queried' /\ cache' = cache)
        /\ (FailureStored(fn', args') /\ queried') => Age(fn', args') >= TTL[fn']
    ]_vars

\* The store answers again, and fetch_gastos("1") still returned the failure
\* stored 30 seconds before, without querying the store.
C29_Witness ==
    /\ fn = "fetch_gastos" /\ args = <<IntToStr(1)>>
    /\ store_up /\ ~queried
    /\ FailureStored("fetch_gastos", args) /\ Age("fetch_gastos", args) = TickStep
    /\ ret = [df |-> EmptyDataFrame, err |-> ErrMsg("repr(e)")]

(***************************************************************************)
(* Claims about the session state, checked under SpecSession.              *)
(***************************************************************************)
MunicipioKeys == {"municipio_sel", "municipio_nombre", "municipio_georef"}

Triple(ss) ==
    <<Get(ss, "municipio_sel"), Get(ss, "municipio_nombre"), Get(ss, "municipio_georef")>>

NoSelection == <<NoneV, NoneV, NoneV>>

\* What a call of one of the three functions does to the three municipio_*
\* keys: select_municipio sets them to its arguments, reset_to_provincial
\* sets them to None, init_session_state keeps what is set and sets None
\* where nothing is.
TripleStep ==
    /\ fn' = "select_municipio" => Triple(session_state') = args'
    /\ fn' = "reset_to_provincial" => Triple(session_state') = NoSelection
    /\ fn' = "init_session_state" =>
           Triple(session_state') =
               IF MunicipioKeys \subseteq DOMAIN session_state
               THEN Triple(session_state) ELSE NoSelection

\* C25: after any sequence of calls of init_session_state, select_municipio
\* and reset_to_provincial, the three municipio_* keys are all None or all
\* equal to the arguments of the most recent select_municipio that no
\* reset_to_provincial followed; they are never partly set.
C25_TripleAllOrNothing ==
    /\ [](fn # "none" =>
            \/ Triple(session_state) = NoSelection
            \/ Triple(session_state) \in Selecciones)
    /\ [][TripleStep]_vars

\* A selection that a later init_session_state has kept.
C25_Witness ==
    /\ fn = "init_session_state"
    /\ Triple(session_state) = <<TextV(<<"A">>), TextV(<<"Adolfo Alsina">>), TextV(<<"06007">>)>>

\* A reset after which nothing is selected, with the other keys in place.
C25_WitnessReset ==
    /\ fn = "reset_to_provincial"
    /\ Triple(session_state) = NoSelection
    /\ Get(session_state, "map_metric") = TextV(<<"gastos_pagado">>)

\* What a call leaves alone.
SessionFrame ==
    /\ fn' = "reset_to_provincial" =>
           /\ \A key \in MunicipioKeys \cup {"filter_jurisdiccion", "filter_programa"} :
                  Get(session_state', key) = NoneV
           /\ \A key \in {"map_metric", "map_normalization"} :
                  Get(session_state', key) = Get(session_state, key)
    /\ fn' = "select_municipio" =>
           \A key \in (DOMAIN session_state \cup DOMAIN session_state') \ MunicipioKeys :
               Get(session_state', key) = Get(session_state, key)
    /\ fn' = "init_session_state" =>
           \A key \in DOMAIN session_state : Get(session_state', key) = session_state[key]

\* C26: reset_to_provincial sets the three municipio_* keys and the two
\* filters to None and leaves map_metric and map_normalization as they are;
\* select_municipio changes only the three municipio_* keys;
\* init_session_state never overwrites a key that has a value.
C26_SessionFrame == [][SessionFrame]_vars

\* init_session_state has run over a metric, a filter and a selection that
\* are not the defaults.
C26_Witness ==
    /\ fn = "init_session_state"
    /\ Get(session_state, "map_metric") = TextV(<<"gastos_pagado">>)
    /\ Get(session_state, "filter_programa") = TextV(<<"Obras">>)
    /\ Get(session_state, "municipio_sel") = TextV(<<"B">>)

\* reset_to_provincial has run over a map that was not on its defaults.
C26_WitnessReset ==
    /\ fn = "reset_to_provincial"
    /\ Get(session_state, "map_normalization") = TextV(<<"proyectado">>)
    /\ Get(session_state, "filter_jurisdiccion") = NoneV

(***************************************************************************)
(* Claim about the sidebar, checked under SpecSidebar.                     *)
(***************************************************************************)
\* How many of the calls of a run are select_municipio or reset_to_provincial.
StateChanges(calls) ==
    Cardinality({i \in DOMAIN calls : calls[i] \in {"select_municipio", "reset_to_provincial"}})

Reruns(calls) == Cardinality({i \in DOMAIN calls : calls[i] = "st.rerun"})

\* A run of the sidebar: it calls select_municipio or reset_to_provincial at
\* most once, and requests a rerun exactly when it does; the run that a
\* rerun started, the user's input being the same, changes nothing in the
\* session state, requests no rerun and leaves no run due.
SidebarRun ==
    fn' = "render_sidebar_controls" =>
        /\ StateChanges(args') <= 1
        /\ Reruns(args') = StateChanges(args')
        /\ pending' = (Reruns(args') = 1)
        /\ reruns = 1 =>
               /\ StateChanges(args') = 0
               /\ session_state' = session_state
               /\ ~pending'

\* C27: the rerun loop of render_sidebar_controls stabilises.  After a
\* change of the sidebar's selection select_municipio or reset_to_provincial
\* is called once and one rerun is requested; the next run, with the same
\* user input, finds the stored selection equal to what the sidebar shows
\* and neither changes the state nor reruns; without new user input the
\* script eventually stops rerunning.
C27_RerunLoopStabilises ==
    /\ [](reruns <= 1)
    /\ [][SidebarRun]_vars
    /\ (pending ~> ~pending)

\* The run after the rerun that a selection of Alberti caused: nothing is
\* due, and the stored selection is what the selector shows.
C27_Witness ==
    /\ fn = "render_sidebar_controls"
    /\ reruns = 1
    /\ ~pending
    /\ widgets.municipio = "Alberti"
    /\ Triple(session_state) = <<TextV(<<"B">>), TextV(<<"Alberti">>), TextV(<<"06014">>)>>

\* The run after the rerun that a return to the provincial view caused, with
\* the metric of the map away from its default.
C27_WitnessVolver ==
    /\ fn = "render_sidebar_controls"
    /\ reruns = 1
    /\ ~pending
    /\ widgets.municipio = VistaProvincial
    /\ Triple(session_state) = NoSelection
    /\ Get(session_state, "map_metric") = TextV(<<"gastos_pagado">>)

(***************************************************************************)
(* Claim about the map, checked under SpecView.                            *)
(***************************************************************************)
\* The map has been drawn from the fetched table.
MapDrawn == pc = "view" /\ fn = "create_choropleth_map"

\* The feature of a municipality of the registry.
FeatureOf(mid) == municipios_base(bd_municipios).rows[mid].id_georef

\* Both metrics the map is drawn for are built from expenditure lines: a
\* municipality without any has no value for them, with a row in the table
\* (from its revenue lines) or without one.
NoValue(mid) == GasLinesOf(mid) = {}

\* C30: in create_choropleth_map a municipality with no value for the
\* selected fiscal metric (absent from the aggregate table, or with a row
\* but no lines of the kind the metric is built from) gets raw value 0 and
\* so display value 0 in every normalization mode; the display value is
\* always a number.
C30_NoValueIsZero ==
    MapDrawn =>
        /\ \A mid \in Municipios : NoValue(mid) => ret[FeatureOf(mid)] = Zero
        /\ \A gid \in FeatureIds : IsNum(ret[gid])

\* The part of C30 the code meets: a feature without a row in the registry,
\* a municipality without a row in the table, and one whose row has None or
\* no column for the metric, are shown as 0.
C30_AbsentIsZero ==
    MapDrawn =>
        /\ \A gid \in FeatureIds \ {FeatureOf(mid) : mid \in Municipios} : ret[gid] = Zero
        /\ \A mid \in Municipios :
               (\/ mid \notin DOMAIN df_metrics.rows
                \/ ~HasCell(mid, args[1])
                \/ Cell(mid, args[1]) = None) => ret[FeatureOf(mid)] = Zero

\* A municipality with revenue lines only, beside one with expenditure
\* lines: its cell is NaN and so is its display value.
C30_WitnessNaN ==
    /\ MapDrawn
    /\ args[1] = "gastos_pagado"
    /\ "A" \in DOMAIN df_metrics.rows
    /\ NoValue("A")
    /\ ret[FeatureOf("A")] = NaN

(***************************************************************************)
(* Claim about what a row depends on, checked under SpecAgg.               *)
(***************************************************************************)
\* The lines of a table that belong to documents of mid.
OwnLines(mid, B) == [e \in {x \in BagToSet(B) : OwnedBy(mid, x)} |-> B[e]]

\* The aggregate table of the store with the lines of every municipality but
\* mid taken out: an input that agrees with the store on mid's documents and
\* lines and differs in the lines of the others.
AloneTable(mid) == fetch_metricas_por_municipio(docs, OwnLines(mid, recs), OwnLines(mid, gass))

\* C28: the row of municipality A in the aggregate table (which columns it
\* has, and the values of its sums, fiscal balance and execution rate)
\* depends only on the lines of A's documents: two inputs that agree on A's
\* documents and lines and differ in the lines of other municipalities give
\* A the same row.
C28_RowDependsOnOwnLines ==
    Fetched => \A mid \in Municipios :
        row_to_dict(df_metrics, mid) = row_to_dict(AloneTable(mid), mid)

\* The part of C28 the code meets: A has a row in one table exactly when it
\* has one in the other; every sum and rate that is a number in A's row is
\* the same number in both, and one that is undefined in one (no column, NaN
\* or None) is undefined in the other.  The balances are not in it: A has
\* one only when the table has revenue and expenditure columns.
C28_DefinedValuesOwnLines ==
    Fetched => \A mid \in Municipios :
        LET row == row_to_dict(df_metrics, mid)
            alone == row_to_dict(AloneTable(mid), mid)
            defined(r, c) == c \in DOMAIN r /\ IsNum(r[c])
        IN /\ (row = <<>>) <=> (alone = <<>>)
           /\ \A c \in (DOMAIN row \cup DOMAIN alone) \ {"balance_fiscal", "balance_fiscal_proy"} :
                  /\ defined(row, c) <=> defined(alone, c)
                  /\ defined(row, c) => row[c] = alone[c]

\* A has revenue lines only and B an expenditure line: A's row has the
\* expenditure columns and a fiscal balance, neither of which it has when
\* B's line is taken out.
C28_WitnessColumns ==
    /\ Fetched
    /\ "A" \in DOMAIN df_metrics.rows
    /\ GasLinesOf("A") = {}
    /\ GasLinesOf("B") # {}
    /\ "gastos_pagado" \in DOMAIN row_to_dict(df_metrics, "A")
    /\ "gastos_pagado" \notin DOMAIN row_to_dict(AloneTable("A"), "A")
    /\ IsNum(row_to_dict(df_metrics, "A")["balance_fiscal"])
    /\ "balance_fiscal" \notin DOMAIN row_to_dict(AloneTable("A"), "A")

====
